---- MODULE Spec2Model ----
(***************************************************************************)
(* Shipment tracker: the carrier adapters (carriers.py), the router        *)
(* (CarrierTracker), the reconciliation loop (main.process_sheet, main.main)*)
(* and the sheet/chat client (lark_client.py).                             *)
(*                                                                         *)
(* Six specifications share the variables:                                 *)
(*   SpecTrack    one CarrierTracker instance, track calls with arbitrary  *)
(*                upstream responses;                                      *)
(*   Spec         whole runs of main() over a spreadsheet;                 *)
(*   SpecAuth     track calls of one authenticating adapter as time passes;*)
(*   SpecSummary  send_daily_summary on lists of results;                  *)
(*   SpecCarrier  normalize_carrier and the routing of one carrier cell;   *)
(*   SpecRerun    successive runs of main(), with the history of each      *)
(*                row's last reconciliation.                               *)
(*                                                                         *)
(* Text that the code slices or measures (timestamps, dates) is a sequence *)
(* of one-character strings; text that the code only compares, upper- or   *)
(* lower-cases is a TLA+ string with the case tables below.                *)
(***************************************************************************)
EXTENDS Integers, Sequences, FiniteSets, TLC

VARIABLES
    sheet,          \* the spreadsheet: row number -> cells (carrier, status, delivery_date)
    configured,     \* config: the carriers whose API credentials are set
    sheet_tokens,   \* config.SHEET_TOKENS
    chat_id,        \* config.LARK_CHAT_ID
    dry_run,        \* "--dry-run" in sys.argv
    pc,             \* position of main(): "start","sheet","tab","rows","summary","done","exit1"
    tokens_left,    \* main: the spreadsheets still to process, the current one first
    tabs_to_process,\* process_sheet: the tabs still to scan, the current one first
    rows,           \* process_sheet: rows of the current tab still to process
    all_results,    \* the result dicts collected by the run
    events,         \* this run's loop iterations of process_sheet, in order
    sent,           \* this run's calls of send_group_message: the message, and
                    \* whether it was posted to the chat
    clients,        \* CarrierTracker: adapter -> [token, token_expires]
    now,            \* time.time(); a run is short against the life of a token,
                    \* and the clock advances in SpecAuth only
    ticks,          \* number of clock advances so far
    granted,        \* history: per adapter, whether the token endpoint has issued the
                    \* token now held, and the expiry instant it was issued with
    last,           \* the last CarrierTracker.track call: input and outcome
    cell,           \* a carrier cell of the sheet, as its characters
    carrier_key,    \* normalize_carrier(cell), as its characters
    prev            \* history: per row, its last reconciliation in an earlier run

vars == <<sheet, configured, sheet_tokens, chat_id, dry_run, pc, tokens_left,
          tabs_to_process, rows, all_results, events, sent, clients, now, ticks,
          granted, last, cell, carrier_key, prev>>

runVars == <<sheet, sheet_tokens, chat_id, dry_run, pc, tokens_left, tabs_to_process,
             rows, all_results, events, sent>>

-----------------------------------------------------------------------------
(* Bounds of the model *)

NRows == 2
MaxTicks == 3
MaxResults == 3

(* Program constants *)

TokenMargin == 300
DefaultExpires == 3600
UPSDefaultExpires == 14400
HTTP_OK == 200
HTTP_NOT_FOUND == 404
HTTP_SERVER_ERROR == 500
HTTP_ERROR_FLOOR == 400
DateLen == 10
UPSDateLen == 8

-----------------------------------------------------------------------------
(* Text *)

EmptyStr == <<>>

\* s[:n]
Prefix(s, n) == SubSeq(s, 1, IF Len(s) < n THEN Len(s) ELSE n)

\* str.upper() on the strings of the model
Upper(s) ==
    CASE s = "in transit" -> "IN TRANSIT"
      [] s = "delivered" -> "DELIVERED"
      [] s = "dl" -> "DL"
      [] s = "d" -> "D"
      [] s = "Delivered" -> "DELIVERED"
      [] s = "carrier-x" -> "CARRIER-X"
      [] s = "Fed Ex" -> "FED EX"
      [] s = "usps" -> "USPS"
      [] s = "Royal Mail" -> "ROYAL MAIL"
      [] s = "Brendan" -> "BRENDAN"
      [] s = "Customer Direct" -> "CUSTOMER DIRECT"
      [] s = "Hannah" -> "HANNAH"
      [] OTHER -> s

\* str.lower() on the strings of the model
Lower(s) ==
    CASE s = "Fed Ex" -> "fed ex"
      [] s = "UPS" -> "ups"
      [] s = " usps" -> " usps"
      [] s = "DHL" -> "dhl"
      [] s = "Royal Mail" -> "royal mail"
      [] s = "Delivered" -> "delivered"
      [] s = "DELIVERED" -> "delivered"
      [] s = "Transit" -> "transit"
      [] s = "Delivered to your neighbour" -> "delivered to your neighbour"
      [] s = "Out for Delivery" -> "out for delivery"
      [] s = "Item Returned" -> "item returned"
      [] s = "Sender despatched item" -> "sender despatched item"
      [] OTHER -> s

\* str.strip() on the strings of the model
Strip(s) ==
    CASE s = "in transit " -> "in transit"
      [] s = " usps" -> "usps"
      [] OTHER -> s

\* the whitespace characters of the model
Whitespace == {" ", "\t"}

\* str.strip() on a sequence of characters
RECURSIVE LStrip(_)
LStrip(s) == IF s # <<>> /\ Head(s) \in Whitespace THEN LStrip(Tail(s)) ELSE s

RECURSIVE RStrip(_)
RStrip(s) ==
    IF s # <<>> /\ s[Len(s)] \in Whitespace THEN RStrip(SubSeq(s, 1, Len(s) - 1)) ELSE s

StripChars(s) == RStrip(LStrip(s))

\* str.lower() and str.upper() on a sequence of characters
LowerOf ==
    ( "A" :> "a" @@ "B" :> "b" @@ "C" :> "c" @@ "D" :> "d" @@ "E" :> "e"
      @@ "F" :> "f" @@ "G" :> "g" @@ "H" :> "h" @@ "I" :> "i" @@ "J" :> "j"
      @@ "K" :> "k" @@ "L" :> "l" @@ "M" :> "m" @@ "N" :> "n" @@ "O" :> "o"
      @@ "P" :> "p" @@ "Q" :> "q" @@ "R" :> "r" @@ "S" :> "s" @@ "T" :> "t"
      @@ "U" :> "u" @@ "V" :> "v" @@ "W" :> "w" @@ "X" :> "x" @@ "Y" :> "y"
      @@ "Z" :> "z" )

UpperOf ==
    ( "a" :> "A" @@ "b" :> "B" @@ "c" :> "C" @@ "d" :> "D" @@ "e" :> "E"
      @@ "f" :> "F" @@ "g" :> "G" @@ "h" :> "H" @@ "i" :> "I" @@ "j" :> "J"
      @@ "k" :> "K" @@ "l" :> "L" @@ "m" :> "M" @@ "n" :> "N" @@ "o" :> "O"
      @@ "p" :> "P" @@ "q" :> "Q" @@ "r" :> "R" @@ "s" :> "S" @@ "t" :> "T"
      @@ "u" :> "U" @@ "v" :> "V" @@ "w" :> "W" @@ "x" :> "X" @@ "y" :> "Y"
      @@ "z" :> "Z" )

LowerChars(s) == [i \in 1..Len(s) |-> IF s[i] \in DOMAIN LowerOf THEN LowerOf[s[i]] ELSE s[i]]
UpperChars(s) == [i \in 1..Len(s) |-> IF s[i] \in DOMAIN UpperOf THEN UpperOf[s[i]] ELSE s[i]]

\* the characters of the carrier names and keys of the model
Spelling ==
    ( "fedex" :> <<"f", "e", "d", "e", "x">>
   @@ "fed ex" :> <<"f", "e", "d", " ", "e", "x">>
   @@ "federal express" :> <<"f", "e", "d", "e", "r", "a", "l", " ", "e", "x", "p", "r", "e", "s", "s">>
   @@ "ups" :> <<"u", "p", "s">>
   @@ "united parcel" :> <<"u", "n", "i", "t", "e", "d", " ", "p", "a", "r", "c", "e", "l">>
   @@ "usps" :> <<"u", "s", "p", "s">>
   @@ "us postal" :> <<"u", "s", " ", "p", "o", "s", "t", "a", "l">>
   @@ "united states postal" :> <<"u", "n", "i", "t", "e", "d", " ", "s", "t", "a", "t", "e", "s", " ", "p", "o", "s", "t", "a", "l">>
   @@ "dhl" :> <<"d", "h", "l">>
   @@ "dhl express" :> <<"d", "h", "l", " ", "e", "x", "p", "r", "e", "s", "s">>
   @@ "royal mail" :> <<"r", "o", "y", "a", "l", " ", "m", "a", "i", "l">>
   @@ "royalmail" :> <<"r", "o", "y", "a", "l", "m", "a", "i", "l">>
   @@ "royal" :> <<"r", "o", "y", "a", "l">>
   @@ "rm" :> <<"r", "m">>
   @@ "carrier-x" :> <<"c", "a", "r", "r", "i", "e", "r", "-", "x">>
   @@ "fedx" :> <<"f", "e", "d", "x">>
   @@ "Fed Ex" :> <<"F", "e", "d", " ", "E", "x">>
   @@ "DHL" :> <<"D", "H", "L">>
   @@ "UPS" :> <<"U", "P", "S">>
   @@ "Royal Mail" :> <<"R", "o", "y", "a", "l", " ", "M", "a", "i", "l">>
   @@ "" :> <<>> )

Spell(word) == Spelling[word]

\* the name or key that a sequence of characters spells ("?": none of them)
Word(chars) ==
    IF \E w \in DOMAIN Spelling : Spelling[w] = chars
    THEN CHOOSE w \in DOMAIN Spelling : Spelling[w] = chars
    ELSE "?"

-----------------------------------------------------------------------------
(* config.py *)

STATUS_MAP ==
    ( "delivered" :> "DELIVERED" @@ "in_transit" :> "IN TRANSIT"
   @@ "out_for_delivery" :> "OUT FOR DELIVERY" @@ "exception" :> "EXCEPTION"
   @@ "pending" :> "PENDING" @@ "label_created" :> "LABEL CREATED"
   @@ "unknown" :> "UNKNOWN" @@ "not_found" :> "NOT FOUND" )

CARRIER_ALIASES ==
    ( "fedex" :> "fedex" @@ "fed ex" :> "fedex" @@ "federal express" :> "fedex"
   @@ "ups" :> "ups" @@ "united parcel" :> "ups"
   @@ "usps" :> "usps" @@ "us postal" :> "usps" @@ "united states postal" :> "usps"
   @@ "dhl" :> "dhl" @@ "dhl express" :> "dhl"
   @@ "royal mail" :> "royalmail" @@ "royalmail" :> "royalmail"
   @@ "royal" :> "royalmail" @@ "rm" :> "royalmail" )

-----------------------------------------------------------------------------
(* carriers.py: results, exceptions, HTTP *)

normalize_result(status, delivery_date, location, raw_status, error) ==
    [ status        |-> IF status \in DOMAIN STATUS_MAP
                        THEN STATUS_MAP[status] ELSE STATUS_MAP["unknown"],
      status_key    |-> status,
      delivery_date |-> delivery_date,
      location      |-> location,
      raw_status    |-> raw_status,
      error         |-> error ]

NoResult == [ status |-> "", status_key |-> "", delivery_date |-> EmptyStr,
              location |-> "", raw_status |-> "", error |-> "" ]

\* An exception: its class, str(e), and the status of e.response (0: no response)
NoExc == [type |-> "", msg |-> "", http |-> 0]
Exc(type, msg, http) == [type |-> type, msg |-> msg, http |-> http]

\* requests.get/post(...); resp.raise_for_status(); resp.json()
\* of a response r: the exception raised, NoExc when the payload is returned
FetchExc(r) ==
    IF r.net # "ok" THEN Exc("Timeout", "Read timed out", 0)
    ELSE IF r.http >= HTTP_ERROR_FLOOR
         THEN Exc("HTTPError",
                  IF r.http = HTTP_NOT_FOUND THEN "404 Client Error" ELSE "500 Server Error",
                  r.http)
    ELSE IF ~r.valid_json THEN Exc("ValueError", "Expecting value", 0)
    ELSE NoExc

\* bool(e.response): requests.Response.__bool__ is Response.ok, and None is falsy
ResponseTruthy(e) == e.http # 0 /\ e.http < HTTP_ERROR_FLOOR

\* `if e.response and e.response.status_code == 404`
Is404(e) == ResponseTruthy(e) /\ e.http = HTTP_NOT_FOUND

-----------------------------------------------------------------------------
(* carriers.py: token cache *)

None == "<None>"

\* truth value of a token: None and "" are falsy
Truthy(token) == token # None /\ token # ""

\* _safe_expires(data, key, default): int(float(str(val))); ValueError and
\* TypeError give the default, the OverflowError of an infinite value escapes
_safe_expires(val, default) ==
    CASE val.kind = "missing" -> [raised |-> FALSE, value |-> default]
      [] val.kind = "number"  -> [raised |-> FALSE, value |-> val.n]
      [] val.kind = "text"    -> [raised |-> FALSE, value |-> default]
      [] val.kind = "inf"     -> [raised |-> TRUE,  value |-> 0]

\* FedExTracker/UPSTracker/USPSTracker._authenticate at time t, with the token
\* endpoint answering a: the exception raised (NoExc: the token is returned),
\* the adapter's fields afterwards, and whether a credential exchange was posted
AuthenticateNoMargin(self, t, creds, a, default) ==
    IF Truthy(self.token) /\ t < self.token_expires
    THEN [exc |-> NoExc, self |-> self, exchanged |-> FALSE]
    ELSE IF ~creds
    THEN [exc |-> Exc("Exception", "API credentials not configured", 0),
          self |-> self, exchanged |-> FALSE]
    ELSE IF FetchExc(a) # NoExc
    THEN [exc |-> FetchExc(a), self |-> self, exchanged |-> TRUE]
    ELSE IF ~a.has_token
    THEN [exc |-> Exc("KeyError", "'access_token'", 0), self |-> self, exchanged |-> TRUE]
    ELSE LET e == _safe_expires(a.expires_in, default) IN
         IF e.raised
         THEN [exc |-> Exc("OverflowError", "cannot convert float infinity to integer", 0),
               self |-> [self EXCEPT !.token = a.access_token], exchanged |-> TRUE]
         ELSE [exc |-> NoExc,
               self |-> [token |-> a.access_token, token_expires |-> t + e.value],
               exchanged |-> TRUE]

Authenticate(self, t, creds, a, default) ==
    IF Truthy(self.token) /\ t < self.token_expires
    THEN [exc |-> NoExc, self |-> self, exchanged |-> FALSE]
    ELSE IF ~creds
    THEN [exc |-> Exc("Exception", "API credentials not configured", 0),
          self |-> self, exchanged |-> FALSE]
    ELSE IF FetchExc(a) # NoExc
    THEN [exc |-> FetchExc(a), self |-> self, exchanged |-> TRUE]
    ELSE IF ~a.has_token
    THEN [exc |-> Exc("KeyError", "'access_token'", 0), self |-> self, exchanged |-> TRUE]
    ELSE LET e == _safe_expires(a.expires_in, default) IN
         IF e.raised
         THEN [exc |-> Exc("OverflowError", "cannot convert float infinity to integer", 0),
               self |-> [self EXCEPT !.token = a.access_token], exchanged |-> TRUE]
         ELSE [exc |-> NoExc,
               self |-> [token |-> a.access_token,
                         token_expires |-> t + e.value - TokenMargin],
               exchanged |-> TRUE]

\* DHLTracker and RoyalMailTracker keep no token: the key is checked on each call
KeyCheck(self, creds) ==
    [exc |-> IF creds THEN NoExc ELSE Exc("Exception", "API key not configured", 0),
     self |-> self, exchanged |-> FALSE]

-----------------------------------------------------------------------------
(* carriers.py: the adapters.  A track call gives                          *)
(*   raised     an exception left track                                     *)
(*   failed     an exception was raised inside track                        *)
(*   result     the dict returned (NoResult when raised)                    *)
(*   self       the adapter's fields afterwards                             *)
(*   exchanged  a credential exchange was posted                            *)
(*   tracked    the tracking request was sent                               *)
(*   adapter    the adapter that ran ("" when none did)                     *)

Returned(adapter, auth, failed, result) ==
    [ raised |-> FALSE, failed |-> failed, result |-> result, self |-> auth.self,
      exchanged |-> auth.exchanged, tracked |-> auth.exc = NoExc, adapter |-> adapter ]

Raised(adapter, auth) ==
    [ raised |-> TRUE, failed |-> TRUE, result |-> NoResult, self |-> auth.self,
      exchanged |-> auth.exchanged, tracked |-> auth.exc = NoExc, adapter |-> adapter ]

\* the exception raised by the try block up to `data = resp.json()`
TryExc(auth, r) == IF auth.exc # NoExc THEN auth.exc ELSE FetchExc(r)

\* `except Exception as e: return normalize_result("unknown", error=str(e))`
ExceptExceptionAsPending(e) == normalize_result("pending", EmptyStr, "", "", e.msg)

ExceptException(e) == normalize_result("unknown", EmptyStr, "", "", e.msg)

\* `except requests.exceptions.HTTPError as e:` followed by `except Exception`
ExceptHTTPError(e) ==
    IF e.type = "HTTPError"
    THEN IF Is404(e)
         THEN normalize_result("not_found", EmptyStr, "", "", "")
         ELSE normalize_result("unknown", EmptyStr, "", "", e.msg)
    ELSE ExceptException(e)

FirstIndex(S) == CHOOSE i \in S : \A j \in S : i <= j

\* ---- FedEx
FedExStatusDefaultUnknown(code) ==
    CASE code = "DL" -> "delivered"
      [] code = "IT" -> "in_transit"
      [] code = "OD" -> "out_for_delivery"
      [] code = "DE" -> "exception"
      [] code = "PU" -> "in_transit"
      [] code = "PL" -> "label_created"
      [] OTHER -> "unknown"

FedExStatus(code) ==
    CASE code = "DL" -> "delivered"
      [] code = "IT" -> "in_transit"
      [] code = "OD" -> "out_for_delivery"
      [] code = "DE" -> "exception"
      [] code = "PU" -> "in_transit"
      [] code = "PL" -> "label_created"
      [] OTHER -> "in_transit"

\* the first dateAndTimes entry of type ACTUAL_DELIVERY or ESTIMATED_DELIVERY
FedExDeliveryDate(dates) ==
    LET hits == { i \in 1..Len(dates) :
                    dates[i].type \in {"ACTUAL_DELIVERY", "ESTIMATED_DELIVERY"} }
    IN IF hits = {} THEN EmptyStr
       ELSE Prefix(dates[FirstIndex(hits)].dateTime, DateLen)

FedExTracker_track(self, t, creds, a, r) ==
    LET auth == Authenticate(self, t, creds, a, DefaultExpires)
        e == TryExc(auth, r)
    IN IF e # NoExc THEN Returned("fedex", auth, TRUE, ExceptException(e))
       ELSE IF ~r.found
       THEN Returned("fedex", auth, FALSE,
                     normalize_result("not_found", EmptyStr, "", "", r.err_msg))
       ELSE Returned("fedex", auth, FALSE,
                     normalize_result(FedExStatus(Upper(r.code)),
                                      FedExDeliveryDate(r.dates), r.loc, r.desc, ""))

\* ---- UPS
UPSStatus(type) ==
    CASE type = "D" -> "delivered"
      [] type = "I" -> "in_transit"
      [] type = "P" -> "in_transit"
      [] type = "M" -> "label_created"
      [] type = "X" -> "exception"
      [] type = "O" -> "out_for_delivery"
      [] OTHER -> "in_transit"

\* f"{date_str[:4]}-{date_str[4:6]}-{date_str[6:]}" when len(date_str) == 8
UPSDateUnchecked(date_str) ==
    IF date_str # EmptyStr
    THEN SubSeq(date_str, 1, 4) \o <<"-">> \o SubSeq(date_str, 5, 6) \o <<"-">>
         \o SubSeq(date_str, 7, Len(date_str))
    ELSE EmptyStr

UPSDate(date_str) ==
    IF date_str # EmptyStr /\ Len(date_str) = UPSDateLen
    THEN SubSeq(date_str, 1, 4) \o <<"-">> \o SubSeq(date_str, 5, 6) \o <<"-">>
         \o SubSeq(date_str, 7, Len(date_str))
    ELSE EmptyStr

UPSDeliveryDate(status, r) ==
    LET first == IF r.estimated # EmptyStr THEN UPSDate(r.estimated) ELSE EmptyStr
    IN IF status = "delivered" /\ first = EmptyStr THEN UPSDate(r.actual) ELSE first

UPSTracker_track(self, t, creds, a, r) ==
    LET auth == Authenticate(self, t, creds, a, UPSDefaultExpires)
        e == TryExc(auth, r)
        status == UPSStatus(Upper(r.code))
    IN IF e # NoExc THEN Returned("ups", auth, TRUE, ExceptException(e))
       ELSE IF ~r.found
       THEN Returned("ups", auth, FALSE, normalize_result("not_found", EmptyStr, "", "", ""))
       ELSE Returned("ups", auth, FALSE,
                     normalize_result(status, UPSDeliveryDate(status, r), r.loc, r.desc, ""))

\* ---- USPS
USPSStatus(category) ==
    CASE category = "DELIVERED" -> "delivered"
      [] category = "IN_TRANSIT" -> "in_transit"
      [] category = "OUT_FOR_DELIVERY" -> "out_for_delivery"
      [] category = "ALERT" -> "exception"
      [] category = "PRE_TRANSIT" -> "label_created"
      [] category = "ACCEPTED" -> "in_transit"
      [] OTHER -> "in_transit"

USPSDeliveryDate(r) ==
    IF r.actual # EmptyStr THEN Prefix(r.actual, DateLen)
    ELSE IF r.estimated # EmptyStr THEN Prefix(r.estimated, DateLen)
    ELSE EmptyStr

USPSTracker_track(self, t, creds, a, r) ==
    LET auth == Authenticate(self, t, creds, a, DefaultExpires)
        e == TryExc(auth, r)
    IN IF e # NoExc THEN Returned("usps", auth, TRUE, ExceptHTTPError(e))
       ELSE Returned("usps", auth, FALSE,
                     normalize_result(USPSStatus(Upper(r.code)), USPSDeliveryDate(r),
                                      r.loc, r.desc, ""))

\* ---- DHL
DHLStatus(code) ==
    CASE code = "delivered" -> "delivered"
      [] code = "transit" -> "in_transit"
      [] code = "failure" -> "exception"
      [] code = "pre-transit" -> "label_created"
      [] code = "unknown" -> "unknown"
      [] OTHER -> "in_transit"

DHLDeliveryDate(status, r) ==
    IF status = "delivered"
    THEN IF r.actual # EmptyStr THEN Prefix(r.actual, DateLen) ELSE EmptyStr
    ELSE IF r.estimated # EmptyStr
    THEN IF r.est_is_str THEN Prefix(r.estimated, DateLen) ELSE EmptyStr
    ELSE EmptyStr

DHLTracker_track_uncaught(self, t, creds, a, r) ==
    LET auth == KeyCheck(self, creds)
        e == TryExc(auth, r)
        status == DHLStatus(Lower(r.code))
    IN IF auth.exc # NoExc THEN Raised("dhl", auth)
       ELSE IF e # NoExc THEN Returned("dhl", auth, TRUE, ExceptHTTPError(e))
       ELSE IF ~r.found
       THEN Returned("dhl", auth, FALSE, normalize_result("not_found", EmptyStr, "", "", ""))
       ELSE Returned("dhl", auth, FALSE,
                     normalize_result(status, DHLDeliveryDate(status, r), r.loc, r.desc, ""))

DHLTracker_track(self, t, creds, a, r) ==
    LET auth == KeyCheck(self, creds)
        e == TryExc(auth, r)
        status == DHLStatus(Lower(r.code))
    IN IF e # NoExc THEN Returned("dhl", auth, TRUE, ExceptHTTPError(e))
       ELSE IF ~r.found
       THEN Returned("dhl", auth, FALSE, normalize_result("not_found", EmptyStr, "", "", ""))
       ELSE Returned("dhl", auth, FALSE,
                     normalize_result(status, DHLDeliveryDate(status, r), r.loc, r.desc, ""))

\* ---- Royal Mail
\* the rule phrases that occur in a (lower-cased) status description
PhrasesIn(desc) ==
    CASE desc = "delivered to your neighbour" -> {"delivered"}
      [] desc = "out for delivery" -> {"out for delivery"}
      [] desc = "item returned" -> {"returned"}
      [] desc = "in transit" -> {"in transit", "transit"}
      [] desc = "item posted" -> {"posted"}
      [] desc = "not delivered - returned to sender" -> {"delivered", "returned"}
      [] OTHER -> {}

\* phrase in status_desc
Contains(desc, phrase) == phrase \in PhrasesIn(desc)

RoyalMailStatus(status_desc) ==
    IF Contains(status_desc, "delivered") THEN "delivered"
    ELSE IF Contains(status_desc, "out for delivery") \/ Contains(status_desc, "with delivery")
    THEN "out_for_delivery"
    ELSE IF Contains(status_desc, "collected") \/ Contains(status_desc, "accepted")
    THEN "in_transit"
    ELSE IF Contains(status_desc, "in transit") \/ Contains(status_desc, "transit")
    THEN "in_transit"
    ELSE IF Contains(status_desc, "arrived") THEN "in_transit"
    ELSE IF Contains(status_desc, "exception") \/ Contains(status_desc, "returned")
            \/ Contains(status_desc, "failed")
    THEN "exception"
    ELSE IF Contains(status_desc, "posted") \/ Contains(status_desc, "dispatched")
    THEN "label_created"
    ELSE "in_transit"

RoyalMailDeliveryDate(status, r) ==
    LET first == IF status = "delivered" /\ r.has_events /\ r.actual # EmptyStr
                 THEN Prefix(r.actual, DateLen) ELSE EmptyStr
    IN IF r.estimated # EmptyStr /\ first = EmptyStr
       THEN Prefix(r.estimated, DateLen) ELSE first

RoyalMailTracker_track(self, t, creds, a, r) ==
    LET auth == KeyCheck(self, creds)
        e == TryExc(auth, r)
        status == RoyalMailStatus(Lower(r.desc))
    IN IF e # NoExc THEN Returned("royalmail", auth, TRUE, ExceptHTTPError(e))
       ELSE IF ~r.found
       THEN Returned("royalmail", auth, FALSE,
                     normalize_result("not_found", EmptyStr, "", "", ""))
       ELSE Returned("royalmail", auth, FALSE,
                     normalize_result(status, RoyalMailDeliveryDate(status, r),
                                      IF r.has_events THEN r.loc ELSE "", r.desc, ""))

-----------------------------------------------------------------------------
(* carriers.py: CarrierTracker *)

Carriers == {"fedex", "ups", "usps", "dhl", "royalmail"}

\* CarrierTracker.__init__: fresh adapters (DHL and Royal Mail keep no fields;
\* their entries are never read or changed)
NewClients == [c \in Carriers |-> [token |-> None, token_expires |-> 0]]

\* the adapter's call, with the tracker's other adapters left as they were
Dispatch(cl, carrier, o) ==
    [ raised |-> o.raised, failed |-> o.failed, result |-> o.result,
      clients |-> [cl EXCEPT ![carrier] = o.self],
      exchanged |-> o.exchanged, tracked |-> o.tracked, adapter |-> o.adapter ]

\* `if not client:` of CarrierTracker.track
UnsupportedToFedEx(cl, t, conf, carrier, a, r) ==
    Dispatch(cl, "fedex", FedExTracker_track(cl["fedex"], t, "fedex" \in conf, a, r))

Unsupported(cl, t, conf, carrier, a, r) ==
    [ raised |-> FALSE, failed |-> FALSE,
      result |-> normalize_result("unknown", EmptyStr, "", "", "Unsupported carrier"),
      clients |-> cl, exchanged |-> FALSE, tracked |-> FALSE, adapter |-> "" ]

\* CarrierTracker.track(tracking_number, carrier) at time t, with the credentials
\* conf, the token endpoint answering a and the tracking endpoint answering r
CarrierTracker_track(cl, t, conf, carrier, a, r) ==
    CASE carrier = "fedex" ->
           Dispatch(cl, carrier, FedExTracker_track(cl[carrier], t, carrier \in conf, a, r))
      [] carrier = "ups" ->
           Dispatch(cl, carrier, UPSTracker_track(cl[carrier], t, carrier \in conf, a, r))
      [] carrier = "usps" ->
           Dispatch(cl, carrier, USPSTracker_track(cl[carrier], t, carrier \in conf, a, r))
      [] carrier = "dhl" ->
           Dispatch(cl, carrier, DHLTracker_track(cl[carrier], t, carrier \in conf, a, r))
      [] carrier = "royalmail" ->
           Dispatch(cl, carrier, RoyalMailTracker_track(cl[carrier], t, carrier \in conf, a, r))
      [] OTHER -> Unsupported(cl, t, conf, carrier, a, r)

-----------------------------------------------------------------------------
(* Upstream answers *)

Date_0225 == <<"2","0","2","6","-","0","2","-","2","5">>
Date_0227 == <<"2","0","2","6","-","0","2","-","2","7">>
Date_0220 == <<"2","0","2","6","-","0","2","-","2","0">>
ActualTs    == Date_0225 \o <<"T","1","0",":","3","0",":","0","0">>
EstimatedTs == Date_0227 \o <<"T","0","0",":","0","0",":","0","0">>
Ymd_0225 == <<"2","0","2","6","0","2","2","5">>
Ymd_0227 == <<"2","0","2","6","0","2","2","7">>
Ymd_short == <<"2","0","2","6","0","2">>

\* a token endpoint answer
TokenOK == [ net |-> "ok", http |-> HTTP_OK, valid_json |-> TRUE, has_token |-> TRUE,
             access_token |-> "tokA", expires_in |-> [kind |-> "number", n |-> DefaultExpires] ]

\* a tracking endpoint answer, reduced to what the adapters read:
\*   found      FedEx: no results.error; UPS: activity; DHL: shipments; Royal Mail: mailPieces
\*   err_msg    FedEx: results.error.message
\*   code       the carrier's status code (FedEx code, UPS type, USPS statusCategory, DHL statusCode)
\*   desc       the carrier's status text
\*   dates      FedEx dateAndTimes
\*   actual     UPS latest.date, USPS actualDeliveryDate, DHL status.timestamp, Royal Mail events[0].eventDateTime
\*   estimated  UPS deliveryDate[0].date, USPS expectedDeliveryDate, DHL estimatedTimeOfDelivery,
\*              Royal Mail startOfEstimatedWindow
PayloadOK == [ net |-> "ok", http |-> HTTP_OK, valid_json |-> TRUE, found |-> TRUE,
               err_msg |-> "", code |-> "", desc |-> "", dates |-> <<>>,
               actual |-> EmptyStr, estimated |-> EmptyStr, est_is_str |-> TRUE,
               has_events |-> TRUE, loc |-> "Memphis" ]

FailedAnswers ==
    { [PayloadOK EXCEPT !.net = "timeout"],
      [PayloadOK EXCEPT !.http = HTTP_NOT_FOUND],
      [PayloadOK EXCEPT !.http = HTTP_SERVER_ERROR],
      [PayloadOK EXCEPT !.valid_json = FALSE] }

AuthAnswers == { TokenOK, [TokenOK EXCEPT !.net = "timeout"] }

ActualEntry    == [type |-> "ACTUAL_DELIVERY", dateTime |-> ActualTs]
EstimatedEntry == [type |-> "ESTIMATED_DELIVERY", dateTime |-> EstimatedTs]
OtherEntry     == [type |-> "ACTUAL_PICKUP", dateTime |-> Date_0220]

FedExAnswers ==
    FailedAnswers
    \cup { [PayloadOK EXCEPT !.found = FALSE, !.err_msg = m] :
             m \in {"Tracking number cannot be found", ""} }
    \cup { [PayloadOK EXCEPT !.code = c,
                             !.desc = IF c = "DE" THEN "Clearance delay" ELSE "",
                             !.dates = d] :
             c \in {"DL", "dl", "IT", "OD", "DE", "PU", "PL", "HL", ""},
             d \in { <<>>, <<EstimatedEntry>>, <<ActualEntry>>,
                     <<EstimatedEntry, ActualEntry>>, <<OtherEntry, ActualEntry, EstimatedEntry>> } }

UPSAnswers ==
    FailedAnswers
    \cup { [PayloadOK EXCEPT !.found = FALSE] }
    \cup { [PayloadOK EXCEPT !.code = c, !.desc = IF c = "X" THEN "Damaged" ELSE "",
                             !.actual = x, !.estimated = y] :
             c \in {"D", "d", "I", "P", "M", "X", "O", "RS", ""},
             x \in {EmptyStr, Ymd_0225, Ymd_short},
             y \in {EmptyStr, Ymd_0227, Ymd_short} }

USPSAnswers ==
    FailedAnswers
    \cup { [PayloadOK EXCEPT !.code = c, !.desc = IF c = "ALERT" THEN "Held" ELSE "",
                             !.actual = x, !.estimated = y] :
             c \in {"DELIVERED", "Delivered", "IN_TRANSIT", "OUT_FOR_DELIVERY", "ALERT",
                    "PRE_TRANSIT", "ACCEPTED", "RETURNED", ""},
             x \in {EmptyStr, ActualTs},
             y \in {EmptyStr, EstimatedTs} }

DHLAnswers ==
    FailedAnswers
    \cup { [PayloadOK EXCEPT !.found = FALSE] }
    \cup { [PayloadOK EXCEPT !.code = c, !.desc = IF c = "failure" THEN "Address issue" ELSE "",
                             !.actual = x, !.estimated = y, !.est_is_str = b] :
             c \in {"delivered", "DELIVERED", "transit", "failure", "pre-transit",
                    "unknown", "customs", ""},
             x \in {EmptyStr, ActualTs},
             y \in {EmptyStr, EstimatedTs},
             b \in {TRUE} }
    \cup { [PayloadOK EXCEPT !.code = "transit", !.estimated = Date_0227, !.est_is_str = FALSE] }

RoyalMailAnswers ==
    FailedAnswers
    \cup { [PayloadOK EXCEPT !.found = FALSE] }
    \cup { [PayloadOK EXCEPT !.desc = d, !.has_events = ev, !.actual = x, !.estimated = y] :
             d \in {"Delivered to your neighbour", "Out for Delivery", "Item Returned",
                    "in transit", "item posted", "Sender despatched item", ""},
             ev \in BOOLEAN,
             x \in {EmptyStr, ActualTs},
             y \in {EmptyStr, EstimatedTs} }

AnswersOf(carrier) ==
    CASE carrier = "fedex" -> FedExAnswers
      [] carrier = "ups" -> UPSAnswers
      [] carrier = "usps" -> USPSAnswers
      [] carrier = "dhl" -> DHLAnswers
      [] carrier = "royalmail" -> RoyalMailAnswers
      [] OTHER -> {PayloadOK}

\* the carrier keys a caller may pass to CarrierTracker.track
RouterKeys == Carriers \cup {"carrier-x", ""}

-----------------------------------------------------------------------------
(* The spreadsheet.  Row i of the model is sheet row HEADER_ROW + i; its tab, *)
(* tracking number, recipient and customer are fixed, its carrier, status and *)
(* delivery-date cells are the state.  The cells the tracker neither reads    *)
(* nor writes (vendor, order number, ...) are left out.                       *)

RowIds == 1..NRows

SheetTabs == <<"TEMPLATE", "Hannah", "JAN", "FEB">>
SKIP_TABS == {"TEMPLATE"}
PERMANENT_TABS == <<"Hannah", "Lucy", "Other">>
MONTH_ORDER == <<"JAN", "FEB", "MAR", "APR", "MAY", "JUN",
                 "JUL", "AUG", "SEP", "OCT", "NOV", "DEC">>

\* current_month_tab(): the run takes place in February
CurrentMonthTab == "FEB"

TabOf(i) == IF i = 3 THEN "Hannah" ELSE "FEB"
TrackingOf(i) == IF i = 2 THEN "T2" ELSE "T1"
RecipientOf(i) == IF i = 1 THEN "Brendan" ELSE IF i = 2 THEN "Customer Direct" ELSE ""
CustomerOf(i) == IF i = 2 THEN "James Wilson" ELSE ""

KnownCells == <<"Fed Ex", "DHL", " usps", "UPS", "Royal Mail">>
CarrierCells(i) == {"carrier-x", KnownCells[((i - 1) % Len(KnownCells)) + 1]}

\* the (status, delivery date) cells a row may start with
StoredCells ==
    { [status |-> "", delivery_date |-> EmptyStr],
      [status |-> "in transit ", delivery_date |-> Date_0220],
      [status |-> "DELIVERED", delivery_date |-> Date_0220] }

Sheets ==
    { [i \in RowIds |-> [carrier |-> c[i], status |-> st[i].status,
                         delivery_date |-> st[i].delivery_date]] :
        c \in {f \in [RowIds -> UNION {CarrierCells(i) : i \in RowIds}] :
                 \A i \in RowIds : f[i] \in CarrierCells(i)},
        st \in [RowIds -> StoredCells] }

-----------------------------------------------------------------------------
(* lark_client.py *)

\* LarkClient._parse_sheets
ParseSheets(tabs) == SelectSeq(tabs, LAMBDA title : title \notin SKIP_TABS)

RECURSIVE RowsFrom(_, _, _)
RowsFrom(sh, tab, i) ==
    IF i > NRows THEN <<>>
    ELSE IF TabOf(i) = tab /\ Strip(TrackingOf(i)) # ""
    THEN << [ row_num        |-> i,
              recipient      |-> Strip(RecipientOf(i)),
              customer       |-> Strip(CustomerOf(i)),
              tracking_num   |-> Strip(TrackingOf(i)),
              carrier        |-> Strip(sh[i].carrier),
              current_status |-> Strip(sh[i].status),
              delivery_date  |-> StripChars(sh[i].delivery_date) ] >>
         \o RowsFrom(sh, tab, i + 1)
    ELSE RowsFrom(sh, tab, i + 1)

\* LarkClient.read_tracking_data: the rows of a tab that hold a tracking number
ReadTrackingData(sh, tab) == RowsFrom(sh, tab, 1)

\* LarkClient.update_tracking_row, its write_cells accepted: the status cell,
\* and the delivery-date cell when a date is given
UpdateTrackingRowStatusOnly(sh, row_num, status, delivery_date) ==
    [sh EXCEPT ![row_num] =
        [carrier |-> @.carrier, status |-> status, delivery_date |-> @.delivery_date]]

\* config.COLUMNS, for the cells of the model
COLUMNS == ("carrier" :> "H" @@ "status" :> "M" @@ "delivery_date" :> "Q")

\* the cell of a row that stands in column col
CellAt(col) == CHOOSE cell_name \in DOMAIN COLUMNS : COLUMNS[cell_name] = col

\* LarkClient.write_cells, accepted by the service: each update sets the cell
\* at its column and row
RECURSIVE WriteCells(_, _)
WriteCells(sh, updates) ==
    IF updates = <<>> THEN sh
    ELSE WriteCells([sh EXCEPT ![Head(updates).row][CellAt(Head(updates).col)] =
                                   Head(updates).value],
                    Tail(updates))

UpdateTrackingRowNextRow(sh, row_num, status, delivery_date) ==
    WriteCells(sh, <<[row |-> (row_num % NRows) + 1, col |-> COLUMNS["status"],
                      value |-> status]>>)

UpdateTrackingRow(sh, row_num, status, delivery_date) ==
    WriteCells(sh,
        <<[row |-> row_num, col |-> COLUMNS["status"], value |-> status]>>
        \o (IF delivery_date # EmptyStr
            THEN <<[row |-> row_num, col |-> COLUMNS["delivery_date"],
                    value |-> delivery_date]>>
            ELSE <<>>))

\* datetime.strptime(raw_date.strip()[:10], fmt) succeeds for one of the formats
\* (the month and day ranges are not modelled)
Parsable(d) ==
    /\ Len(d) = DateLen
    /\ \/ d[5] = "-" /\ d[8] = "-"
       \/ d[3] = "/" /\ d[6] = "/"

\* LarkClient._shipment_line(r): the name and the wording of the line;
\*   text  the fixed wording ("" when the raw date is shown as it is)
\*   raw   the carrier text after "exception - "
\*   date  the date the wording ends with
ShipmentLine(r) ==
    LET recipient == Strip(r.recipient)
        customer == Strip(r.customer)
        name == IF Upper(recipient) = "BRENDAN" THEN "Brendan"
                ELSE IF Upper(recipient) = "CUSTOMER DIRECT"
                THEN (IF customer # "" THEN customer ELSE "Unknown")
                ELSE IF recipient # "" THEN recipient
                ELSE IF customer # "" THEN customer ELSE "Unknown"
        delivery == StripChars(r.delivery_date)
        status == Upper(r.new_status)
        raw == Strip(r.raw_status)
        line(text, rw, date) ==
            [tracking |-> r.tracking_num, name |-> name, text |-> text, raw |-> rw,
             date |-> date]
    IN IF status = "OUT FOR DELIVERY" THEN line("out for delivery today", "", EmptyStr)
       ELSE IF status = "LABEL CREATED" THEN line("waiting to ship", "", EmptyStr)
       ELSE IF status = "EXCEPTION" THEN line("exception", raw, EmptyStr)
       ELSE IF status \in {"UNKNOWN", "NOT FOUND", "PENDING", ""}
       THEN line("pending", "", EmptyStr)
       ELSE IF delivery # EmptyStr
       THEN IF Parsable(Prefix(StripChars(delivery), DateLen))
            THEN line("expected delivery on", "", Prefix(StripChars(delivery), DateLen))
            ELSE line("", "", delivery)
       ELSE line("in transit", "", EmptyStr)

\* the lines of a message
TextLine(kind, label) ==
    [kind |-> kind, label |-> label,
     item |-> [tracking |-> "", name |-> "", text |-> "", raw |-> "", date |-> EmptyStr]]
ItemLine(r) == [kind |-> "item", label |-> "", item |-> ShipmentLine(r)]

AllDeliveredMessage ==
    << TextLine("all_delivered", "All shipments delivered. Nothing to track today.") >>

\* active = [r for r in all_results if r["new_status"].upper() != "DELIVERED"]
ActiveAll(results) == results

Active(results) == SelectSeq(results, LAMBDA r : Upper(r.new_status) # "DELIVERED")

\* the first occurrence of each tracking number
UniqueKeepLast(active) ==
    LET keep == { k \in 1..Len(active) :
                    /\ Strip(active[k].tracking_num) # ""
                    /\ \A j \in (k + 1)..Len(active) :
                         Strip(active[j].tracking_num) # Strip(active[k].tracking_num) }
        RECURSIVE pick(_)
        pick(k) == IF k > Len(active) THEN <<>>
                   ELSE (IF k \in keep THEN <<active[k]>> ELSE <<>>) \o pick(k + 1)
    IN pick(1)

Unique(active) ==
    LET keep == { k \in 1..Len(active) :
                    /\ Strip(active[k].tracking_num) # ""
                    /\ \A j \in 1..(k - 1) :
                         Strip(active[j].tracking_num) # Strip(active[k].tracking_num) }
        RECURSIVE pick(_)
        pick(k) == IF k > Len(active) THEN <<>>
                   ELSE (IF k \in keep THEN <<active[k]>> ELSE <<>>) \o pick(k + 1)
    IN pick(1)

\* `r.get("carrier", "").strip().upper() or "UNKNOWN"`
CarrierLabel(r) ==
    IF Upper(Strip(r.carrier)) # "" THEN Upper(Strip(r.carrier)) ELSE "UNKNOWN"

\* sorted() of the carrier labels of the model
CarrierOrder == <<"CARRIER-X", "DHL", "FED EX", "ROYAL MAIL", "UNKNOWN", "UPS", "USPS">>

\* render_section(label, items)
RenderSection(label, items) ==
    LET RECURSIVE carriers(_)
        carriers(k) ==
            IF k > Len(CarrierOrder) THEN <<>>
            ELSE LET mine == SelectSeq(items, LAMBDA r : CarrierLabel(r) = CarrierOrder[k])
                     RECURSIVE lines(_)
                     lines(n) == IF n > Len(mine) THEN <<>>
                                 ELSE <<ItemLine(mine[n])>> \o lines(n + 1)
                 IN (IF mine = <<>> THEN <<>>
                     ELSE <<TextLine("carrier", CarrierOrder[k])>> \o lines(1))
                    \o carriers(k + 1)
    IN IF items = <<>> THEN <<>>
       ELSE <<TextLine("section", label)>> \o carriers(1)

\* the sections in order: the permanent tabs, then the months (every tab of the
\* model is one of them, so the "unexpected tab names" pass renders nothing)
SectionOrder == PERMANENT_TABS \o MONTH_ORDER

\* LarkClient.send_daily_summary(all_results): the message handed to send_group_message
DailySummaryAlwaysReport(results) ==
    LET unique == Unique(Active(results))
        RECURSIVE sections(_)
        sections(k) ==
            IF k > Len(SectionOrder) THEN <<>>
            ELSE RenderSection(SectionOrder[k],
                               SelectSeq(unique, LAMBDA r : Strip(r.tab) = SectionOrder[k]))
                 \o sections(k + 1)
    IN <<TextLine("title", "HLT Shipment Tracker")>> \o sections(1)

DailySummary(results) ==
    LET active == Active(results)
        unique == Unique(active)
        RECURSIVE sections(_)
        sections(k) ==
            IF k > Len(SectionOrder) THEN <<>>
            ELSE RenderSection(SectionOrder[k],
                               SelectSeq(unique, LAMBDA r : Strip(r.tab) = SectionOrder[k]))
                 \o sections(k + 1)
    IN IF active = <<>> THEN AllDeliveredMessage
       ELSE <<TextLine("title", "HLT Shipment Tracker")>> \o sections(1)

-----------------------------------------------------------------------------
(* The token endpoint's side of the token cache *)

\* the adapters that exchange credentials for a bearer token
AuthCarriers == {"fedex", "ups", "usps"}

NoGrants == [c \in AuthCarriers |-> [held |-> FALSE, expiry |-> 0]]

\* the lifetime a token answer states: expires_in, or the adapter's default
\* when the field is absent or is no number (0: no finite lifetime)
Lifetime(carrier, a) ==
    CASE a.expires_in.kind = "number" -> a.expires_in.n
      [] a.expires_in.kind = "inf" -> 0
      [] OTHER -> IF carrier = "ups" THEN UPSDefaultExpires ELSE DefaultExpires

\* the history after a track call at time t that the token endpoint answered
\* with a: a token issued with a finite lifetime is held with its expiry
\* instant; one issued without keeps the expiry instant held before
Grant(g, t, carrier, a, o) ==
    IF carrier \in AuthCarriers /\ o.exchanged /\ FetchExc(a) = NoExc /\ a.has_token
    THEN [g EXCEPT ![carrier] =
            [held |-> TRUE,
             expiry |-> IF a.expires_in.kind = "inf" THEN @.expiry
                        ELSE t + Lifetime(carrier, a)]]
    ELSE g

-----------------------------------------------------------------------------
(* State *)

\* no reconciliation is remembered; `on` tells whether the history is kept
NoPrev == [on |-> FALSE, rows |-> [i \in RowIds |-> [seen |-> FALSE]]]

\* the history once a run has ended: for each row the run has reconciled with a
\* carrier's answer, whether it was a dry run, the iteration, and the dict the
\* iteration added to all_results
Remembered(p, dry, evs, results) ==
    IF p.on
    THEN [p EXCEPT !.rows =
            [i \in RowIds |->
               LET its == {k \in 1..Len(evs) : evs[k].row = i /\ evs[k].called}
               IN IF its = {} THEN @[i]
                  ELSE LET k == CHOOSE j \in its : \A h \in its : h <= j
                       IN [seen |-> TRUE, dry |-> dry, it |-> evs[k],
                           entry |-> results[evs[k].entry]]]]
    ELSE p

NoCall == [ called |-> FALSE, carrier |-> "", resp |-> PayloadOK, raised |-> FALSE,
            failed |-> FALSE, result |-> NoResult, exchanged |-> FALSE,
            tracked |-> FALSE, adapter |-> "" ]

CallRecord(carrier, r, o) ==
    [ called |-> TRUE, carrier |-> carrier, resp |-> r, raised |-> o.raised,
      failed |-> o.failed, result |-> o.result, exchanged |-> o.exchanged,
      tracked |-> o.tracked, adapter |-> o.adapter ]

(* SpecTrack: track calls on one CarrierTracker *)

InitTrack ==
    /\ sheet = <<>>
    /\ configured \in {Carriers, {}}
    /\ sheet_tokens = <<>>
    /\ chat_id = ""
    /\ dry_run = FALSE
    /\ pc = "track"
    /\ tokens_left = <<>>
    /\ tabs_to_process = <<>>
    /\ rows = <<>>
    /\ all_results = <<>>
    /\ events = <<>>
    /\ sent = <<>>
    /\ clients = NewClients
    /\ now = 0
    /\ ticks = 0
    /\ granted = NoGrants
    /\ last = NoCall
    /\ cell = EmptyStr
    /\ carrier_key = EmptyStr
    /\ prev = NoPrev

\* tracker.track(tracking_number, carrier)
Track ==
    /\ pc = "track"
    /\ \E carrier \in RouterKeys, a \in AuthAnswers :
         \E r \in AnswersOf(carrier) :
           LET o == CarrierTracker_track(clients, now, configured, carrier, a, r) IN
           /\ clients' = o.clients
           /\ granted' = Grant(granted, now, carrier, a, o)
           /\ last' = CallRecord(carrier, r, o)
    /\ UNCHANGED <<runVars, cell, carrier_key, prev, configured, now, ticks>>

NextTrack == Track

SpecTrack == InitTrack /\ [][NextTrack]_vars

FailureKeys == {"unknown", "not_found"}

\* the last call reached an adapter and met one of the failures of the contract:
\* an exception inside track, missing credentials, or a tracking request that
\* timed out, was refused or returned no JSON
AdapterFailure ==
    /\ last.called
    /\ last.adapter # ""
    /\ \/ last.raised
       \/ last.failed
       \/ last.carrier \notin configured
       \/ last.tracked /\ FetchExc(last.resp) # NoExc

\* C7: no adapter's track lets an exception out, and a call that failed
\* (network, timeout, authentication, missing credentials, parsing) returns a
\* result whose status_key is unknown or not_found.
C7_AdapterNeverRaises ==
    /\ last.called /\ last.adapter # "" => ~last.raised
    /\ AdapterFailure => last.result.status_key \in FailureKeys

C7_Witness ==
    /\ AdapterFailure
    /\ last.adapter = "dhl"
    /\ "dhl" \notin configured
    /\ last.result.status_key = "unknown"
    /\ last.result.error # ""

\* C8: CarrierTracker.track with a carrier that has no registered adapter returns
\* status_key unknown with a non-empty error, raises nothing and calls no adapter
\* (no adapter runs, no request is sent, no adapter's fields change).
C8_UnregisteredCarrier ==
    last.called /\ last.carrier \notin Carriers =>
        /\ ~last.raised
        /\ last.result.status_key = "unknown"
        /\ last.result.error # ""
        /\ last.adapter = ""
        /\ ~last.tracked
        /\ ~last.exchanged

C8_Witness ==
    /\ last.called
    /\ last.carrier = "carrier-x"
    /\ last.result.status_key = "unknown"
    /\ last.result.error = "Unsupported carrier"

\* C9: every result returned by an adapter or by CarrierTracker.track that has a
\* non-empty error has status_key unknown or not_found.
C9_ErrorImpliesFailureKey ==
    last.called /\ ~last.raised /\ last.result.error # "" =>
        last.result.status_key \in FailureKeys

C9_Witness ==
    /\ last.called
    /\ last.adapter = "fedex"
    /\ last.result.error = "Tracking number cannot be found"
    /\ last.result.status_key = "not_found"

\* C10: for every adapter, a tracking request answered with HTTP 404 gives a
\* result with status_key not_found.
C10_Http404IsNotFound ==
    /\ last.called
    /\ last.tracked
    /\ last.resp.net = "ok"
    /\ last.resp.http = HTTP_NOT_FOUND
    => last.result.status_key = "not_found"

-----------------------------------------------------------------------------
(* main.py *)

BAD_STATUSES == {"UNKNOWN", "NOT FOUND", ""}
DONE_STATUSES == {"DELIVERED"}

Range(f) == {f[x] : x \in DOMAIN f}

\* normalize_carrier(carrier_str), on the characters of the carrier cell:
\* CARRIER_ALIASES.get(carrier_str.lower().strip(), carrier_str.lower().strip())
normalize_carrier_unstripped(carrier_str) ==
    LET lowered == LowerChars(carrier_str)
        aliases == {a \in DOMAIN CARRIER_ALIASES : Spell(a) = lowered}
    IN IF aliases # {}
       THEN Spell(CARRIER_ALIASES[CHOOSE a \in aliases : TRUE])
       ELSE lowered

normalize_carrier(carrier_str) ==
    LET lowered == StripChars(LowerChars(carrier_str))
        aliases == {a \in DOMAIN CARRIER_ALIASES : Spell(a) = lowered}
    IN IF aliases # {}
       THEN Spell(CARRIER_ALIASES[CHOOSE a \in aliases : TRUE])
       ELSE lowered

\* the carrier key of a carrier name of the sheet
CarrierKey(name) == Word(normalize_carrier(Spell(name)))

\* row.get("current_status", "").strip().upper()
CurrentStatus(row) == Upper(Strip(row.current_status))

\* `if current_status in DONE_STATUSES`
IsDoneNever(current_status) == FALSE

IsDone(current_status) == current_status \in DONE_STATUSES

\* the negation of `if not carrier or carrier not in CARRIER_ALIASES.values()`
Recognized(carrier) == carrier # "" /\ carrier \in Range(CARRIER_ALIASES)

\* `current_status or "UNKNOWN CARRIER"`
UnknownCarrierStatus(current_status) ==
    IF current_status # "" THEN current_status ELSE "UNKNOWN CARRIER"

\* `if api_error or new_status.upper() in BAD_STATUSES`
IsBadErrorOnly(result) == result.error # ""

IsBad(result) == result.error # "" \/ Upper(result.status) \in BAD_STATUSES

\* `display_status = current_status if current_status else "PENDING"`
DisplayStatus(current_status) ==
    IF current_status # "" THEN current_status ELSE "PENDING"

\* `if not dry_run and new_status.upper() != current_status`
ShouldWriteAlways(dry, new_status, current_status) == ~dry

ShouldWriteInDryRun(dry, new_status, current_status) ==
    Upper(new_status) # current_status

ShouldWrite(dry, new_status, current_status) ==
    ~dry /\ Upper(new_status) # current_status

\* {**row, "new_status": ..., "delivery_date": ..., "raw_status": ..., "tab": ..., "sheet_token": ...}
\* (a dict without "raw_status" reads as "" in the report)
ResultEntry(row, new_status, delivery_date, raw_status, tab, token) ==
    [ row_num |-> row.row_num, recipient |-> row.recipient, customer |-> row.customer,
      tracking_num |-> row.tracking_num, carrier |-> row.carrier,
      current_status |-> row.current_status, new_status |-> new_status,
      delivery_date |-> delivery_date, raw_status |-> raw_status,
      tab |-> tab, sheet_token |-> token ]

\* one iteration of `for row in rows`, as it is recorded in events:
\*   branch   "delivered", "unknown_carrier", "bad" or "good"
\*   before, after   the row's cells in the spreadsheet before and after
\*   called   tracker.track was called; result: what it returned
\*   wrote    lark.update_tracking_row was called; write_ok: it did not raise
\*   entry    the index of the iteration's dict in all_results (0: none)
Iteration(row, branch, before, after, called, result, wrote, write_ok, entry) ==
    [ row |-> row.row_num, branch |-> branch, before |-> before, after |-> after,
      called |-> called, result |-> result, wrote |-> wrote, write_ok |-> write_ok,
      entry |-> entry ]

\* where the run goes on once the current spreadsheet is finished
AfterSheet(tks) ==
    [ pc |-> IF Tail(tks) = <<>> THEN "summary" ELSE "sheet",
      tokens_left |-> Tail(tks), tabs_to_process |-> <<>> ]

\* where the run goes on once the current tab is finished
AfterTab(tabs, tks) ==
    IF Tail(tabs) # <<>>
    THEN [pc |-> "tab", tokens_left |-> tks, tabs_to_process |-> Tail(tabs)]
    ELSE AfterSheet(tks)

\* where the run goes on once the current row is finished
AfterRowSameTab(rws, tabs, tks) ==
    IF Tail(rws) # <<>>
    THEN [pc |-> "rows", tokens_left |-> tks, tabs_to_process |-> tabs]
    ELSE [pc |-> "tab", tokens_left |-> tks, tabs_to_process |-> tabs]

AfterRow(rws, tabs, tks) ==
    IF Tail(rws) # <<>>
    THEN [pc |-> "rows", tokens_left |-> tks, tabs_to_process |-> tabs]
    ELSE AfterTab(tabs, tks)

\* `except Exception as e: logger.error(f"Failed to write row ...")`: the run
\* goes on as after a write that succeeded
WriteFailedUncaught(pos) == [pos EXCEPT !.pc = "crashed"]

WriteFailed(pos) == pos

GoTo(pos) ==
    /\ pc' = pos.pc
    /\ tokens_left' = pos.tokens_left
    /\ tabs_to_process' = pos.tabs_to_process

\* the answers of the upstream services during a run
DeliveredAnswer(carrier) ==
    CASE carrier = "fedex" -> [PayloadOK EXCEPT !.code = "DL", !.dates = <<ActualEntry>>]
      [] carrier = "ups" -> [PayloadOK EXCEPT !.code = "D", !.actual = Ymd_0225]
      [] carrier = "usps" -> [PayloadOK EXCEPT !.code = "DELIVERED", !.actual = ActualTs]
      [] carrier = "dhl" -> [PayloadOK EXCEPT !.code = "delivered", !.actual = ActualTs]
      [] OTHER -> [PayloadOK EXCEPT !.desc = "Delivered to your neighbour",
                                    !.actual = ActualTs]

\* delivered, and the payload holds no date
DeliveredUndatedAnswer(carrier) ==
    [DeliveredAnswer(carrier) EXCEPT !.dates = <<>>, !.actual = EmptyStr]

MovingAnswer(carrier) ==
    CASE carrier = "fedex" -> [PayloadOK EXCEPT !.code = "IT"]
      [] carrier = "ups" -> [PayloadOK EXCEPT !.code = "I"]
      [] carrier = "usps" -> [PayloadOK EXCEPT !.code = "IN_TRANSIT"]
      [] carrier = "dhl" -> [PayloadOK EXCEPT !.code = "transit"]
      [] OTHER -> [PayloadOK EXCEPT !.desc = "in transit"]

RunAnswers(carrier) ==
    { [PayloadOK EXCEPT !.net = "timeout"],
      [PayloadOK EXCEPT !.found = FALSE],
      DeliveredAnswer(carrier),
      DeliveredUndatedAnswer(carrier),
      MovingAnswer(carrier) }

(* Spec: runs of main() *)

Init ==
    /\ sheet \in Sheets
    /\ configured \in {Carriers, {}}
    /\ sheet_tokens \in {<<>>, <<"S1">>}
    /\ chat_id \in {"", "oc_chat"}
    /\ dry_run \in BOOLEAN
    /\ pc = "start"
    /\ tokens_left = <<>>
    /\ tabs_to_process = <<>>
    /\ rows = <<>>
    /\ all_results = <<>>
    /\ events = <<>>
    /\ sent = <<>>
    /\ clients = NewClients
    /\ now = 0
    /\ ticks = 0
    /\ granted = NoGrants
    /\ last = NoCall
    /\ cell = EmptyStr
    /\ carrier_key = EmptyStr
    /\ prev = NoPrev

\* main(): `if not SHEET_TOKENS: sys.exit(1)`
NoSheetTokensSkipped ==
    /\ pc = "start"
    /\ sheet_tokens = <<>>
    /\ pc' = "summary"
    /\ UNCHANGED <<sheet, cell, carrier_key, prev, configured, sheet_tokens, chat_id, dry_run, tokens_left,
                   tabs_to_process, rows, all_results, events, sent, clients, now, ticks,
                   granted, last>>

NoSheetTokens ==
    /\ pc = "start"
    /\ sheet_tokens = <<>>
    /\ pc' = "exit1"
    /\ UNCHANGED <<sheet, cell, carrier_key, prev, configured, sheet_tokens, chat_id, dry_run, tokens_left,
                   tabs_to_process, rows, all_results, events, sent, clients, now, ticks,
                   granted,                   last>>

\* main(): lark = LarkClient(); tracker = CarrierTracker(); all_results = []
MainStart ==
    /\ pc = "start"
    /\ sheet_tokens # <<>>
    /\ pc' = "sheet"
    /\ tokens_left' = sheet_tokens
    /\ clients' = NewClients
    /\ granted' = NoGrants
    /\ all_results' = <<>>
    /\ UNCHANGED <<sheet, cell, carrier_key, prev, configured, sheet_tokens, chat_id, dry_run, tabs_to_process,
                   rows, events, sent, now, ticks, last>>

\* process_sheet: lark.get_sheet_metadata and the choice of the tabs
GetSheetMetadata ==
    /\ pc = "sheet"
    /\ LET tabs == ParseSheets(SheetTabs)
           chosen == SelectSeq(tabs, LAMBDA title :
                        Upper(title) = CurrentMonthTab \/ title \in Range(PERMANENT_TABS))
       IN IF chosen = <<>>
          THEN GoTo(AfterSheet(tokens_left))
          ELSE /\ pc' = "tab"
               /\ tabs_to_process' = chosen
               /\ UNCHANGED tokens_left
    /\ UNCHANGED <<sheet, cell, carrier_key, prev, configured, sheet_tokens, chat_id, dry_run, rows, all_results,
                   events, sent, clients, now, ticks, granted, last>>

\* process_sheet: lark.get_sheet_metadata raises, the spreadsheet gives no results
GetSheetMetadataFails ==
    /\ pc = "sheet"
    /\ GoTo(AfterSheet(tokens_left))
    /\ UNCHANGED <<sheet, cell, carrier_key, prev, configured, sheet_tokens, chat_id, dry_run, rows, all_results,
                   events, sent, clients, now, ticks, granted, last>>

\* process_sheet: rows = lark.read_tracking_data(spreadsheet_token, sheet_id)
ReadTab ==
    /\ pc = "tab"
    /\ LET read == ReadTrackingData(sheet, Head(tabs_to_process))
       IN /\ rows' = read
          /\ IF read = <<>>
             THEN GoTo(AfterTab(tabs_to_process, tokens_left))
             ELSE pc' = "rows" /\ UNCHANGED <<tokens_left, tabs_to_process>>
    /\ UNCHANGED <<sheet, cell, carrier_key, prev, configured, sheet_tokens, chat_id, dry_run, all_results,
                   events, sent, clients, now, ticks, granted, last>>

\* process_sheet: lark.read_tracking_data raises, `continue` with the next tab
ReadTabFails ==
    /\ pc = "tab"
    /\ GoTo(AfterTab(tabs_to_process, tokens_left))
    /\ UNCHANGED <<sheet, cell, carrier_key, prev, configured, sheet_tokens, chat_id, dry_run, rows, all_results,
                   events, sent, clients, now, ticks, granted, last>>

\* loop body: the row is stored as DELIVERED
RowDelivered ==
    /\ pc = "rows"
    /\ LET row == Head(rows) IN
       /\ IsDone(CurrentStatus(row))
       /\ events' = Append(events,
              Iteration(row, "delivered", sheet[row.row_num], sheet[row.row_num],
                        FALSE, NoResult, FALSE, FALSE, 0))
    /\ rows' = Tail(rows)
    /\ GoTo(AfterRow(rows, tabs_to_process, tokens_left))
    /\ UNCHANGED <<sheet, cell, carrier_key, prev, configured, sheet_tokens, chat_id, dry_run, all_results, sent,
                   clients, now, ticks, granted, last>>

\* loop body: the carrier cell names no adapter
RowUnknownCarrier ==
    /\ pc = "rows"
    /\ LET row == Head(rows)
           current_status == CurrentStatus(row)
       IN /\ ~IsDone(current_status)
          /\ ~Recognized(CarrierKey(row.carrier))
          /\ all_results' = Append(all_results,
                 ResultEntry(row, UnknownCarrierStatus(current_status), row.delivery_date,
                             "", Head(tabs_to_process), Head(tokens_left)))
          /\ events' = Append(events,
                 Iteration(row, "unknown_carrier", sheet[row.row_num], sheet[row.row_num],
                           FALSE, NoResult, FALSE, FALSE, Len(all_results) + 1))
    /\ rows' = Tail(rows)
    /\ GoTo(AfterRow(rows, tabs_to_process, tokens_left))
    /\ UNCHANGED <<sheet, cell, carrier_key, prev, configured, sheet_tokens, chat_id, dry_run, sent, clients, now,
                   ticks, granted,                   last>>

\* loop body: the carrier is asked, the answer is reconciled with the stored status
RowTracked ==
    /\ pc = "rows"
    /\ LET row == Head(rows)
           current_status == CurrentStatus(row)
           carrier == CarrierKey(row.carrier)
           tab == Head(tabs_to_process)
           token == Head(tokens_left)
       IN
       /\ ~IsDone(current_status)
       /\ Recognized(carrier)
       /\ \E a \in {TokenOK}, r \in RunAnswers(carrier), write_ok \in BOOLEAN :
            LET o == CarrierTracker_track(clients, now, configured, carrier, a, r)
                result == o.result
                bad == IsBad(result)
                write == ~bad /\ ShouldWrite(dry_run, result.status, current_status)
                after == IF write /\ write_ok
                         THEN UpdateTrackingRow(sheet, row.row_num, result.status,
                                                result.delivery_date)
                         ELSE sheet
            IN
            /\ clients' = o.clients
            /\ granted' = Grant(granted, now, carrier, a, o)
            /\ last' = CallRecord(carrier, r, o)
            /\ IF o.raised
               THEN /\ pc' = "crashed"
                    /\ UNCHANGED <<sheet, rows, tokens_left, tabs_to_process,
                                   all_results, events>>
               ELSE /\ write \/ write_ok
                    /\ sheet' = after
                    /\ all_results' = Append(all_results,
                          IF bad
                          THEN ResultEntry(row, DisplayStatus(current_status),
                                           row.delivery_date, result.raw_status, tab, token)
                          ELSE ResultEntry(row, result.status, result.delivery_date,
                                           result.raw_status, tab, token))
                    /\ events' = Append(events,
                          Iteration(row, IF bad THEN "bad" ELSE "good",
                                    sheet[row.row_num], after[row.row_num],
                                    TRUE, result, write, write /\ write_ok,
                                    Len(all_results) + 1))
                    /\ rows' = Tail(rows)
                    /\ GoTo(IF write /\ ~write_ok
                            THEN WriteFailed(AfterRow(rows, tabs_to_process, tokens_left))
                            ELSE AfterRow(rows, tabs_to_process, tokens_left))
    /\ UNCHANGED <<cell, carrier_key, prev, configured, sheet_tokens, chat_id, dry_run, sent,
                   now, ticks>>

\* LarkClient.send_group_message(message): the call as `sent` records it.  The
\* message is posted to the chat when a chat id is configured and the tenant
\* token for the request's headers is obtained; without a chat id the method
\* returns at once, without the token it raises before posting
SendGroupMessage(message, chat, token_ok) ==
    [message |-> message, posted |-> chat # "" /\ token_ok]

\* main(): lark.send_daily_summary(all_results), or the results are logged in a
\* dry run
SendSummaryInDryRunToo ==
    /\ pc = "summary"
    /\ pc' = "done"
    /\ \E token_ok \in BOOLEAN :
         sent' = Append(sent, SendGroupMessage(DailySummary(all_results), chat_id, token_ok))
    /\ UNCHANGED <<sheet, cell, carrier_key, prev, configured, sheet_tokens, chat_id, dry_run, tokens_left,
                   tabs_to_process, rows, all_results, events, clients, now, ticks, granted, last>>

SendSummary ==
    /\ pc = "summary"
    /\ pc' = "done"
    /\ IF dry_run
       THEN sent' = sent
       ELSE \E token_ok \in BOOLEAN :
              sent' = Append(sent, SendGroupMessage(DailySummary(all_results), chat_id,
                                                    token_ok))
    /\ UNCHANGED <<sheet, cell, carrier_key, prev, configured, sheet_tokens, chat_id, dry_run, tokens_left,
                   tabs_to_process, rows, all_results, events, clients, now, ticks, granted,
                   last>>

\* the process has ended; the tracker is started again, with or without --dry-run
NextRun ==
    /\ pc \in {"done", "exit1", "crashed"}
    /\ pc' = "start"
    /\ dry_run' \in BOOLEAN
    /\ tokens_left' = <<>>
    /\ tabs_to_process' = <<>>
    /\ rows' = <<>>
    /\ all_results' = <<>>
    /\ events' = <<>>
    /\ sent' = <<>>
    /\ clients' = NewClients
    /\ granted' = NoGrants
    /\ last' = NoCall
    /\ prev' = Remembered(prev, dry_run, events, all_results)
    /\ UNCHANGED <<sheet, cell, carrier_key, configured, sheet_tokens, chat_id, now, ticks>>

Next ==
    \/ NoSheetTokens
    \/ MainStart
    \/ GetSheetMetadata
    \/ GetSheetMetadataFails
    \/ ReadTab
    \/ ReadTabFails
    \/ RowDelivered
    \/ RowUnknownCarrier
    \/ RowTracked
    \/ SendSummary
    \/ NextRun

Spec == Init /\ [][Next]_vars

-----------------------------------------------------------------------------
(* Properties of the runs of main() *)

Iterations == {events[k] : k \in 1..Len(events)}

\* the stored status of an iteration's row as the loop reads it: trimmed and
\* upper-cased, "" when the cell is empty
StoredStatus(e) == Upper(Strip(e.before.status))

\* the adapter result of an iteration can be trusted: no error, and a display
\* status other than UNKNOWN and NOT FOUND
Trustworthy(e) ==
    e.result.error = "" /\ e.result.status \notin {"UNKNOWN", "NOT FOUND"}

UnrecognizedCarrier(e) ==
    LET carrier == CarrierKey(Strip(sheet[e.row].carrier))
    IN carrier = "" \/ carrier \notin Carriers

HasEntry(e) == e.entry \in 1..Len(all_results)

\* C1: a tracked item whose result has a non-empty error, or the display status
\* UNKNOWN or NOT FOUND, gets no update_tracking_row call; its entry reports the
\* stored status (PENDING when none is stored) and the stored delivery date.
C1_BadResultKeepsStored ==
    \A e \in Iterations :
        e.called /\ (e.result.error # "" \/ e.result.status \in {"UNKNOWN", "NOT FOUND"}) =>
            /\ ~e.wrote
            /\ e.after = e.before
            /\ HasEntry(e)
            /\ all_results[e.entry].new_status =
                   (IF StoredStatus(e) = "" THEN "PENDING" ELSE StoredStatus(e))
            /\ all_results[e.entry].delivery_date = e.before.delivery_date

C1_Witness ==
    /\ \E e \in Iterations :
        /\ e.called
        /\ e.result.error # ""
        /\ e.before.status = "in transit "
        /\ HasEntry(e)
        /\ all_results[e.entry].new_status = "IN TRANSIT"
        /\ all_results[e.entry].delivery_date = Date_0220
    /\ \E e \in Iterations :
        /\ e.called
        /\ e.result.error = ""
        /\ e.result.status = "NOT FOUND"
        /\ e.before.status = ""
        /\ HasEntry(e)
        /\ all_results[e.entry].new_status = "PENDING"

\* C2, as stated: for every tracked item a write is issued if and only if the
\* result is trustworthy and its status differs from the stored status.
C2_WriteIffChanged ==
    \A e \in Iterations :
        e.called => (e.wrote <=> Trustworthy(e) /\ e.result.status # StoredStatus(e))

\* C2, amended: outside a dry run, a write is issued if and only if the result is
\* trustworthy and its status differs from the stored status; in a dry run no
\* write is issued.
C2_WriteIffChangedUnlessDryRun ==
    \A e \in Iterations :
        e.called =>
            (e.wrote <=> ~dry_run /\ Trustworthy(e) /\ e.result.status # StoredStatus(e))

C2_Witness ==
    /\ ~dry_run
    /\ \E e \in Iterations :
         /\ e.called /\ e.wrote /\ e.write_ok
         /\ e.result.status = "DELIVERED"
         /\ e.after.status = "DELIVERED"
    /\ \E e \in Iterations :
         /\ e.called /\ ~e.wrote
         /\ Trustworthy(e)
         /\ e.result.status = "IN TRANSIT"
         /\ e.before.status = "in transit "

\* C3: once the stored status of an item is DELIVERED, no step of any run
\* calls CarrierTracker.track for it or changes its row.
C3_DeliveredIsTerminal ==
    [][ \A i \in RowIds :
          Upper(Strip(sheet[i].status)) = "DELIVERED" =>
              /\ sheet'[i] = sheet[i]
              /\ (Len(events') = Len(events) + 1 /\ events'[Len(events')].row = i) =>
                     /\ ~events'[Len(events')].called
                     /\ ~events'[Len(events')].wrote
                     /\ last' = last
      ]_vars

\* a row that an earlier run wrote as DELIVERED is passed over
C3_Witness ==
    \E e \in Iterations :
        /\ e.branch = "delivered"
        /\ e.before.status = "DELIVERED"
        /\ e.before.delivery_date # Date_0220
        /\ sheet[e.row] = e.before

\* C4: an item whose carrier is unrecognized after normalization gets a
\* report-only entry whose status is the stored status, unchanged; no adapter
\* is called and nothing is written.
C4_UnknownCarrierCarriesStored ==
    \A e \in Iterations :
        UnrecognizedCarrier(e) /\ e.branch # "delivered" =>
            /\ ~e.called
            /\ ~e.wrote
            /\ e.after = e.before
            /\ HasEntry(e)
            /\ all_results[e.entry].new_status = StoredStatus(e)

\* C5: a failure on one item with no stored status (an adapter error, an
\* untrustworthy status or an unrecognized carrier) leaves the stored state as
\* it was, and the item's line in the report has the "pending" wording.
C5_FailureReportsPending ==
    \A e \in Iterations :
        /\ StoredStatus(e) = ""
        /\ \/ e.called /\ ~Trustworthy(e)
           \/ UnrecognizedCarrier(e)
        => /\ ~e.wrote
           /\ e.after = e.before
           /\ HasEntry(e)
           /\ ShipmentLine(all_results[e.entry]).text = "pending"

\* C6: a failure on one item (adapter failure, unrecognized carrier, failed
\* write, unreadable tab) does not end the run: each step of the row loop takes
\* the next row that was read, a row not stored as DELIVERED adds exactly one
\* entry, for that row, to the results, the loop is left only when no row that
\* was read remains, and the results reach the report as they were collected.
C6_FailureDoesNotAbort ==
    [][ /\ pc' # "crashed"
        /\ pc' # "rows" => rows' = <<>>
        /\ pc = "rows" =>
             /\ rows' = Tail(rows)
             /\ Len(events') = Len(events) + 1
             /\ events'[Len(events')].row = Head(rows).row_num
             /\ CurrentStatus(Head(rows)) # "DELIVERED" =>
                  /\ Len(all_results') = Len(all_results) + 1
                  /\ SubSeq(all_results', 1, Len(all_results)) = all_results
                  /\ all_results'[Len(all_results')].row_num = Head(rows).row_num
        /\ pc \in {"sheet", "tab", "summary"} => all_results' = all_results
        /\ pc = "summary" /\ sent' # sent =>
             /\ Len(sent') = Len(sent) + 1
             /\ sent'[Len(sent')].message = DailySummary(all_results)
      ]_vars

\* the first row's write failed, the second row's carrier is unrecognized, and
\* both have their entry
C6_Witness ==
    /\ Len(events) = 2
    /\ events[1].wrote /\ ~events[1].write_ok
    /\ events[2].branch = "unknown_carrier"
    /\ Len(all_results) = 2
    /\ all_results[1].row_num = events[1].row
    /\ all_results[2].row_num = events[2].row
    /\ pc = "done"

-----------------------------------------------------------------------------
(* Properties of the adapters' results *)

\* the tracking request of the last call was answered with a payload that
\* describes a shipment
AnsweredShipment ==
    /\ last.called
    /\ ~last.raised
    /\ last.tracked
    /\ FetchExc(last.resp) = NoExc
    /\ last.resp.found

\* the native status of the answer, folded as the adapter folds it, is not a key
\* of the adapter's status_map (Royal Mail: no rule phrase occurs in the text)
UnmappedCode ==
    CASE last.adapter = "fedex" ->
           Upper(last.resp.code) \notin {"DL", "IT", "OD", "DE", "PU", "PL"}
      [] last.adapter = "ups" ->
           Upper(last.resp.code) \notin {"D", "I", "P", "M", "X", "O"}
      [] last.adapter = "usps" ->
           Upper(last.resp.code) \notin {"DELIVERED", "IN_TRANSIT", "OUT_FOR_DELIVERY",
                                         "ALERT", "PRE_TRANSIT", "ACCEPTED"}
      [] last.adapter = "dhl" ->
           Lower(last.resp.code) \notin {"delivered", "transit", "failure", "pre-transit",
                                         "unknown"}
      [] last.adapter = "royalmail" -> PhrasesIn(Lower(last.resp.desc)) = {}
      [] OTHER -> FALSE

\* C11: for every adapter, a successful answer whose native status is not in the
\* adapter's mapping table gives status_key in_transit, never unknown.
C11_UnmappedIsInTransit ==
    AnsweredShipment /\ UnmappedCode =>
        /\ last.result.status_key = "in_transit"
        /\ last.result.error = ""

C11_Witness ==
    /\ AnsweredShipment
    /\ UnmappedCode
    /\ last.adapter = "fedex"
    /\ last.resp.code = "HL"
    /\ last.result.status = "IN TRANSIT"

\* the actual-delivery timestamp of the answer (EmptyStr: none): FedEx's first
\* ACTUAL_DELIVERY entry, UPS's latest activity date, USPS's actualDeliveryDate,
\* DHL's status timestamp, Royal Mail's latest event time
ActualDelivery ==
    LET r == last.resp
        hits == { i \in 1..Len(r.dates) : r.dates[i].type = "ACTUAL_DELIVERY" }
    IN CASE last.adapter = "fedex" ->
              IF hits = {} THEN EmptyStr ELSE r.dates[FirstIndex(hits)].dateTime
         [] last.adapter = "royalmail" -> IF r.has_events THEN r.actual ELSE EmptyStr
         [] OTHER -> r.actual

\* the first estimated-delivery timestamp of the answer (EmptyStr: none)
EstimatedDelivery ==
    LET r == last.resp
        hits == { i \in 1..Len(r.dates) : r.dates[i].type = "ESTIMATED_DELIVERY" }
    IN CASE last.adapter = "fedex" ->
              IF hits = {} THEN EmptyStr ELSE r.dates[FirstIndex(hits)].dateTime
         [] last.adapter = "dhl" -> IF r.est_is_str THEN r.estimated ELSE EmptyStr
         [] OTHER -> r.estimated

\* the date part of a timestamp: its first ten characters; of a UPS date, the
\* eight digits with dashes
DatePart(ts) ==
    IF last.adapter = "ups"
    THEN (IF Len(ts) = 8
          THEN SubSeq(ts, 1, 4) \o <<"-">> \o SubSeq(ts, 5, 6) \o <<"-">> \o SubSeq(ts, 7, 8)
          ELSE EmptyStr)
    ELSE SubSeq(ts, 1, IF Len(ts) < 10 THEN Len(ts) ELSE 10)

\* C12: for every adapter, a delivered result whose payload holds an
\* actual-delivery timestamp has that timestamp's date part as delivery_date;
\* any other result has the date part of the first estimated-delivery timestamp,
\* and an empty delivery_date when there is none.
C12_DeliveryDatePreference ==
    AnsweredShipment =>
        last.result.delivery_date =
            (IF last.result.status_key = "delivered" /\ ActualDelivery # EmptyStr
             THEN DatePart(ActualDelivery)
             ELSE DatePart(EstimatedDelivery))

\* YYYYMMDD written as YYYY-MM-DD
Dashed(ymd) ==
    <<ymd[1], ymd[2], ymd[3], ymd[4], "-", ymd[5], ymd[6], "-", ymd[7], ymd[8]>>

\* what an upstream date string contributes: its dashed form when it has eight
\* characters, nothing otherwise
DateGiven(date_str) == IF Len(date_str) = 8 THEN Dashed(date_str) ELSE EmptyStr

\* C13: a UPS delivery date of eight digits YYYYMMDD is returned as YYYY-MM-DD
\* (20260225 as 2026-02-25), and a date string of another length gives no date:
\* the result's date is that of deliveryDate[0].date, and, for a delivered
\* shipment for which that gave none, that of the latest activity's date.
C13_EightDigitDate ==
    AnsweredShipment /\ last.adapter = "ups" =>
        last.result.delivery_date =
            (IF DateGiven(last.resp.estimated) # EmptyStr
             THEN DateGiven(last.resp.estimated)
             ELSE IF last.result.status_key = "delivered"
             THEN DateGiven(last.resp.actual)
             ELSE EmptyStr)

\* the latest activity's date 20260225 of a delivered shipment is returned with
\* dashes after a six-character deliveryDate gave no date
C13_Witness ==
    /\ AnsweredShipment
    /\ last.adapter = "ups"
    /\ last.result.status_key = "delivered"
    /\ last.resp.estimated = <<"2","0","2","6","0","2">>
    /\ last.resp.actual = <<"2","0","2","6","0","2","2","5">>
    /\ last.result.delivery_date = <<"2","0","2","6","-","0","2","-","2","5">>

-----------------------------------------------------------------------------
(* SpecAuth: track calls on the authenticating adapters while the clock runs; *)
(* one adapter has its credentials configured, the others have none           *)

\* the token endpoint's answers: a token for an hour, a token without
\* expires_in, a token that lives no longer than the margin, a token with an
\* infinite expires_in, an answer without access_token, and no answer
TokenAnswers ==
    { TokenOK,
      [TokenOK EXCEPT !.expires_in = [kind |-> "missing", n |-> 0]],
      [TokenOK EXCEPT !.expires_in = [kind |-> "number", n |-> TokenMargin]],
      [TokenOK EXCEPT !.access_token = "tokB", !.expires_in = [kind |-> "inf", n |-> 0]],
      [TokenOK EXCEPT !.has_token = FALSE],
      [TokenOK EXCEPT !.net = "timeout"] }

\* the tracking endpoint's answers
TrackAnswers == { PayloadOK, [PayloadOK EXCEPT !.net = "timeout"] }

\* the clock advances by a second, or by one second less than the time for
\* which an hour's token is reused
ClockSteps == {1, DefaultExpires - TokenMargin - 1}

InitAuth ==
    /\ sheet = <<>>
    /\ configured \in {{c} : c \in AuthCarriers}
    /\ sheet_tokens = <<>>
    /\ chat_id = ""
    /\ dry_run = FALSE
    /\ pc = "auth"
    /\ tokens_left = <<>>
    /\ tabs_to_process = <<>>
    /\ rows = <<>>
    /\ all_results = <<>>
    /\ events = <<>>
    /\ sent = <<>>
    /\ clients = NewClients
    /\ now = 0
    /\ ticks = 0
    /\ granted = NoGrants
    /\ last = NoCall
    /\ cell = EmptyStr
    /\ carrier_key = EmptyStr
    /\ prev = NoPrev

\* tracker.track(tracking_number, carrier) for a carrier with a token cache
TrackAuth ==
    /\ pc = "auth"
    /\ \E carrier \in AuthCarriers, a \in TokenAnswers, r \in TrackAnswers :
         LET o == CarrierTracker_track(clients, now, configured, carrier, a, r) IN
         /\ clients' = o.clients
         /\ granted' = Grant(granted, now, carrier, a, o)
         /\ last' = CallRecord(carrier, r, o)
    /\ UNCHANGED <<runVars, cell, carrier_key, prev, configured, now, ticks>>

\* time passes between two calls
Tick ==
    /\ pc = "auth"
    /\ ticks < MaxTicks
    /\ \E d \in ClockSteps : now' = now + d
    /\ ticks' = ticks + 1
    /\ UNCHANGED <<runVars, cell, carrier_key, prev, configured, clients, granted, last>>

NextAuth == TrackAuth \/ Tick

SpecAuth == InitAuth /\ [][NextAuth]_vars

\* a token is held for the adapter and the time is before its expiry instant
\* less the safety margin
FreshToken(c) == granted[c].held /\ now < granted[c].expiry - 300

\* C14: in any sequence of track calls on an authenticating adapter, a
\* credential exchange is made only when no token is cached or the time is at or
\* past the cached token's expiry less 300 seconds (and then it is made, if the
\* credentials are configured); otherwise the cached token is reused as it is.
C14_ExchangeOnlyWhenStale ==
    [][ \A c \in AuthCarriers :
          /\ now' = now
          /\ last'.called
          /\ last'.carrier = c
          /\ <<last', clients'>> # <<last, clients>>
          => /\ last'.exchanged <=> (~FreshToken(c) /\ c \in configured)
             /\ FreshToken(c) => clients'[c] = clients[c]
      ]_vars

\* an hour's token is reused one second before its expiry less the margin and
\* exchanged again at that instant
C14_Witness ==
    /\ last.called
    /\ last.carrier = "fedex"
    /\ last.exchanged
    /\ now = DefaultExpires - TokenMargin
    /\ clients["fedex"].token_expires = now + DefaultExpires - TokenMargin
    /\ granted["fedex"].expiry = now + DefaultExpires

-----------------------------------------------------------------------------
(* Properties of the writes and of the report *)

\* the iteration's result can be trusted and its label differs from the stored one
FreshChange(e) ==
    e.called /\ Trustworthy(e) /\ e.result.status # StoredStatus(e)

\* C15, as stated: when a trustworthy result's label differs from the stored
\* label, the write puts the fresh status and the fresh delivery date in the
\* item's row, and the reported status is the fresh status.
C15_WritePersistsFresh ==
    \A e \in Iterations :
        FreshChange(e) =>
            /\ HasEntry(e)
            /\ all_results[e.entry].new_status = e.result.status
            /\ e.wrote /\ e.write_ok =>
                 /\ e.after.status = e.result.status
                 /\ e.after.delivery_date = e.result.delivery_date

\* C15, amended: the write puts the fresh status in the item's row, and the
\* fresh delivery date when the result has one; with an empty fresh date the
\* stored date stays.  The reported status is the fresh status.
C15_WritePersistsFreshDateIfAny ==
    \A e \in Iterations :
        FreshChange(e) =>
            /\ HasEntry(e)
            /\ all_results[e.entry].new_status = e.result.status
            /\ e.wrote /\ e.write_ok =>
                 /\ e.after.status = e.result.status
                 /\ e.after.delivery_date =
                        (IF e.result.delivery_date # EmptyStr
                         THEN e.result.delivery_date ELSE e.before.delivery_date)
                 /\ e.after.carrier = e.before.carrier

\* stored IN TRANSIT, fresh delivered on 2026-02-25: both are written, and
\* DELIVERED is reported
C15_Witness ==
    \E e \in Iterations :
        /\ FreshChange(e)
        /\ e.wrote /\ e.write_ok
        /\ StoredStatus(e) = "IN TRANSIT"
        /\ e.result.status_key = "delivered"
        /\ e.after.status = "DELIVERED"
        /\ e.after.delivery_date = <<"2","0","2","6","-","0","2","-","2","5">>
        /\ all_results[e.entry].new_status = "DELIVERED"

-----------------------------------------------------------------------------
(* SpecSummary: send_daily_summary applied to lists of result dicts *)

\* the result dicts of the lists: a tracking number, the tab it was read from
\* and the status reported for it
SummaryEntries ==
    { ResultEntry([ row_num |-> 1, recipient |-> "", customer |-> "James Wilson",
                    tracking_num |-> t, carrier |-> "DHL", current_status |-> "",
                    delivery_date |-> EmptyStr ],
                  st, IF st = "DELIVERED" THEN Date_0225 ELSE EmptyStr, "", tab, "S1") :
        t \in {"T1", "T2"}, st \in {"DELIVERED", "IN TRANSIT", "PENDING"},
        tab \in {"Hannah", "FEB"} }

ResultLists == UNION { [1..n -> SummaryEntries] : n \in 0..MaxResults }

InitSummary ==
    /\ sheet = <<>>
    /\ configured = Carriers
    /\ sheet_tokens = <<"S1">>
    /\ chat_id = "oc_chat"
    /\ dry_run = FALSE
    /\ pc = "summary"
    /\ tokens_left = <<>>
    /\ tabs_to_process = <<>>
    /\ rows = <<>>
    /\ all_results \in ResultLists
    /\ events = <<>>
    /\ sent = <<>>
    /\ clients = NewClients
    /\ now = 0
    /\ ticks = 0
    /\ granted = NoGrants
    /\ last = NoCall
    /\ cell = EmptyStr
    /\ carrier_key = EmptyStr
    /\ prev = NoPrev

NextSummary == SendSummary

SpecSummary == InitSummary /\ [][NextSummary]_vars

\* the entries of the results that are not reported as DELIVERED
Remaining == { j \in 1..Len(all_results) : all_results[j].new_status # "DELIVERED" }

\* the entries of the results with tracking number t, and those of them that
\* are not reported as DELIVERED
EntriesOf(t) == { j \in 1..Len(all_results) : all_results[j].tracking_num = t }
RemainingOf(t) == EntriesOf(t) \cap Remaining

\* the positions of the item lines of a message, and of those for tracking number t
ItemsIn(m) == { i \in 1..Len(m) : m[i].kind = "item" }
ItemsOf(m, t) == { i \in ItemsIn(m) : m[i].item.tracking = t }

\* the label of the section that line i of a message stands in
SectionOf(m, i) ==
    LET heads == { h \in 1..i : m[h].kind = "section" }
    IN IF heads = {} THEN ""
       ELSE m[CHOOSE h \in heads : \A g \in heads : g <= h].label

\* C16: no item whose reported status is DELIVERED is in the report that
\* send_daily_summary sends: every item line is the line of an entry that is not
\* DELIVERED, and a tracking number with DELIVERED entries only has no line.
C16_NoDeliveredInReport ==
    \A k \in 1..Len(sent) :
        LET m == sent[k].message IN
        /\ \A i \in ItemsIn(m) :
             \E j \in Remaining : m[i].item = ShipmentLine(all_results[j])
        /\ \A j \in 1..Len(all_results) :
             RemainingOf(all_results[j].tracking_num) = {} =>
                 ItemsOf(m, all_results[j].tracking_num) = {}

\* T1 is reported, T2 is DELIVERED and left out
C16_Witness ==
    /\ Len(sent) = 1
    /\ Len(all_results) = 2
    /\ all_results[1].tracking_num = "T2" /\ all_results[1].new_status = "DELIVERED"
    /\ all_results[2].tracking_num = "T1" /\ all_results[2].new_status = "PENDING"
    /\ ItemsOf(sent[1].message, "T1") # {}
    /\ ItemsOf(sent[1].message, "T2") = {}

\* C17: in the report each tracking number has at most one line, and that line
\* is the line of its first entry, in scan order, that is not DELIVERED, in the
\* section of that entry's tab, also when the entries come from different tabs.
C17_FirstOccurrenceOnly ==
    \A k \in 1..Len(sent) :
        LET m == sent[k].message IN
        \A j \in 1..Len(all_results) :
            LET t == all_results[j].tracking_num
                lines == ItemsOf(m, t)
            IN /\ Cardinality(lines) <= 1
               /\ RemainingOf(t) # {} => Cardinality(lines) = 1
               /\ \A i \in lines :
                    /\ RemainingOf(t) # {}
                    /\ LET first == all_results[FirstIndex(RemainingOf(t))]
                       IN /\ m[i].item = ShipmentLine(first)
                          /\ SectionOf(m, i) = first.tab

\* T1 was read as DELIVERED, then as PENDING from tab FEB, then as IN TRANSIT
\* from tab Hannah: its one line is the pending one, under FEB
C17_Witness ==
    /\ Len(sent) = 1
    /\ Len(all_results) = 3
    /\ \A j \in 1..3 : all_results[j].tracking_num = "T1"
    /\ all_results[1].new_status = "DELIVERED"
    /\ all_results[2].new_status = "PENDING" /\ all_results[2].tab = "FEB"
    /\ all_results[3].new_status = "IN TRANSIT" /\ all_results[3].tab = "Hannah"
    /\ \E i \in ItemsOf(sent[1].message, "T1") :
         /\ sent[1].message[i].item.text = "pending"
         /\ SectionOf(sent[1].message, i) = "FEB"

\* C18: when no item remains once the delivered ones are dropped,
\* send_daily_summary sends exactly one message, the "all delivered" message,
\* and no report; when an item remains, it sends the report and no "all
\* delivered" message.
C18_AllDeliveredMessage ==
    pc = "done" =>
        /\ Len(sent) = 1
        /\ IF Remaining = {}
           THEN sent[1].message =
                    << TextLine("all_delivered",
                                "All shipments delivered. Nothing to track today.") >>
           ELSE /\ \A i \in 1..Len(sent[1].message) :
                     sent[1].message[i].kind # "all_delivered"
                /\ sent[1].message[1].kind = "title"
                /\ ItemsIn(sent[1].message) # {}

\* both entries are DELIVERED and the message is the "all delivered" one
C18_Witness ==
    /\ pc = "done"
    /\ Len(all_results) = 2
    /\ Remaining = {}
    /\ Len(sent) = 1
    /\ Len(sent[1].message) = 1
    /\ sent[1].message[1].kind = "all_delivered"

\* the run has left the loops of main() and process_sheet: no spreadsheet, tab
\* or row is left to process
AllProcessed == tokens_left = <<>> /\ tabs_to_process = <<>> /\ rows = <<>>

\* C19 as stated: every run past the startup check calls send_group_message
\* exactly once, after all items are processed, with the report or the "all
\* delivered" message.
C19_SentExactlyOnce ==
    /\ sent # <<>> => pc = "done" /\ AllProcessed
    /\ pc = "done" =>
         /\ Len(sent) = 1
         /\ sent[1].message = DailySummary(all_results)

\* C19: a run past the startup check that is not a dry run calls
\* send_group_message exactly once, after all items are processed, with the
\* report or the "all delivered" message, and the call posts to the chat only
\* if a chat id is configured; a dry run sends nothing.
C19_SentExactlyOnceUnlessDryRun ==
    /\ sent # <<>> => pc = "done" /\ AllProcessed
    /\ pc = "done" =>
         IF dry_run
         THEN sent = <<>>
         ELSE /\ Len(sent) = 1
              /\ sent[1].message = DailySummary(all_results)
              /\ sent[1].posted => chat_id # ""

\* a run that tracked two rows has posted its report
C19_Witness ==
    /\ pc = "done"
    /\ ~dry_run
    /\ Len(events) = 2
    /\ Len(sent) = 1
    /\ sent[1].posted
    /\ ItemsIn(sent[1].message) # {}

\* C20: with no sheet tokens the process exits with status 1 before any network
\* call (no read of the spreadsheet, no adapter call, no write, no message);
\* with sheet tokens it never exits with a non-zero status.
C20_NoSourcesExitsEarly ==
    /\ sheet_tokens = <<>> =>
         /\ pc \in {"start", "exit1"}
         /\ events = <<>>
         /\ all_results = <<>>
         /\ sent = <<>>
         /\ last = NoCall
         /\ granted = NoGrants
    /\ sheet_tokens # <<>> => pc \notin {"exit1", "crashed"}

C20_Witness == pc = "exit1" /\ sheet_tokens = <<>> /\ ~dry_run /\ chat_id # ""

\* C21: in a dry run no step changes the spreadsheet, no iteration calls
\* update_tracking_row and no message is sent, whatever the rows hold and
\* whatever the adapters return.
C21_DryRunHasNoEffects ==
    [][ dry_run =>
          /\ sheet' = sheet
          /\ sent' = <<>>
          /\ \A k \in 1..Len(events') : ~events'[k].wrote ]_vars

\* a dry run has ended in which a row stored as in transit was found DELIVERED
C21_Witness ==
    /\ dry_run
    /\ pc = "done"
    /\ \E e \in Iterations :
         /\ e.branch = "good"
         /\ StoredStatus(e) = "IN TRANSIT"
         /\ e.result.status = "DELIVERED"
         /\ sheet[e.row].status = "in transit "

-----------------------------------------------------------------------------
(* SpecCarrier: one carrier cell is normalised and routed, as the loop body  *)
(* of process_sheet does it (main.py 113-125)                                *)

\* the first letter in upper case
Capitalized(s) == IF s = <<>> THEN s ELSE UpperChars(<<Head(s)>>) \o Tail(s)

Paddings == {<<>>, <<" ">>, <<"\t", " ">>}

\* the carrier names a cell may hold: the aliases and three other names, in
\* lower case, in upper case and capitalised, with and without whitespace around
CellNames == DOMAIN CARRIER_ALIASES \cup {"carrier-x", "fedx", ""}

CellTexts ==
    { left \o text \o right :
        left \in Paddings, right \in Paddings,
        text \in UNION { {Spell(w), UpperChars(Spell(w)), Capitalized(Spell(w))} :
                           w \in CellNames } }

InitCarrier ==
    /\ sheet = <<>>
    /\ configured = Carriers
    /\ sheet_tokens = <<"S1">>
    /\ chat_id = ""
    /\ dry_run = FALSE
    /\ pc = "carrier"
    /\ tokens_left = <<>>
    /\ tabs_to_process = <<>>
    /\ rows = <<>>
    /\ all_results = <<>>
    /\ events = <<>>
    /\ sent = <<>>
    /\ clients = NewClients
    /\ now = 0
    /\ ticks = 0
    /\ granted = NoGrants
    /\ last = NoCall
    /\ cell \in CellTexts
    /\ carrier_key = EmptyStr
    /\ prev = NoPrev

\* carrier = normalize_carrier(carrier_raw); the row goes to tracker.track
\* unless `not carrier or carrier not in CARRIER_ALIASES.values()`
ResolveCarrier ==
    /\ pc = "carrier"
    /\ LET carrier == normalize_carrier(cell) IN
       /\ carrier_key' = carrier
       /\ IF Recognized(Word(carrier))
          THEN \E r \in {MovingAnswer(Word(carrier)), DeliveredAnswer(Word(carrier))} :
                 LET o == CarrierTracker_track(clients, now, configured, Word(carrier),
                                               TokenOK, r)
                 IN /\ pc' = "tracked"
                    /\ clients' = o.clients
                    /\ granted' = Grant(granted, now, Word(carrier), TokenOK, o)
                    /\ last' = CallRecord(Word(carrier), r, o)
          ELSE /\ pc' = "unknown_carrier"
               /\ UNCHANGED <<clients, granted, last>>
    /\ UNCHANGED <<sheet, cell, prev, configured, sheet_tokens, chat_id, dry_run, tokens_left,
                   tabs_to_process, rows, all_results, events, sent, now, ticks>>

NextCarrier == ResolveCarrier

SpecCarrier == InitCarrier /\ [][NextCarrier]_vars

\* the cell without the whitespace around it
Trimmed(s) ==
    LET inked == {i \in 1..Len(s) : s[i] \notin {" ", "\t"}}
    IN IF inked = {} THEN <<>>
       ELSE SubSeq(s, CHOOSE i \in inked : \A j \in inked : i <= j,
                      CHOOSE i \in inked : \A j \in inked : j <= i)

\* two texts are equal up to the case of their letters
SameLetters(x, y) ==
    /\ Len(x) = Len(y)
    /\ \A i \in 1..Len(x) :
         \/ x[i] = y[i]
         \/ x[i] \in DOMAIN UpperOf /\ UpperOf[x[i]] = y[i]
         \/ y[i] \in DOMAIN UpperOf /\ UpperOf[y[i]] = x[i]

AliasesOf(s) == {a \in DOMAIN CARRIER_ALIASES : SameLetters(Trimmed(s), Spell(a))}

CanonicalKeys == {Spell(c) : c \in {"fedex", "ups", "usps", "dhl", "royalmail"}}

\* C22: normalize_carrier maps a cell that is an alias, up to case and
\* surrounding whitespace, to the alias's canonical key, and any other cell to
\* its trimmed text in lower case; the row reaches an adapter exactly when the
\* result is a canonical key.
C22_NormalizeCarrier ==
    pc # "carrier" =>
        /\ \A a \in AliasesOf(cell) : carrier_key = Spell(CARRIER_ALIASES[a])
        /\ AliasesOf(cell) = {} =>
             /\ SameLetters(carrier_key, Trimmed(cell))
             /\ \A i \in 1..Len(carrier_key) : carrier_key[i] \notin DOMAIN LowerOf
        /\ (last.called /\ last.adapter # "") <=> carrier_key \in CanonicalKeys

\* the cell " FED EX" went to the FedEx adapter
C22_Witness ==
    /\ pc = "tracked"
    /\ cell = <<" ", "F", "E", "D", " ", "E", "X">>
    /\ carrier_key = <<"f", "e", "d", "e", "x">>
    /\ last.adapter = "fedex"

-----------------------------------------------------------------------------
(* SpecRerun: successive runs of main() over the same spreadsheet, with the  *)
(* history of each row's last reconciliation                                *)

\* the first row names a carrier with an adapter, the other rows do not
InitRerun ==
    /\ sheet \in {sh \in Sheets : \A i \in RowIds : sh[i].carrier = "carrier-x" <=> i # 1}
    /\ configured = Carriers
    /\ sheet_tokens \in {<<>>, <<"S1">>}
    /\ chat_id = "oc_chat"
    /\ dry_run \in BOOLEAN
    /\ pc = "start"
    /\ tokens_left = <<>>
    /\ tabs_to_process = <<>>
    /\ rows = <<>>
    /\ all_results = <<>>
    /\ events = <<>>
    /\ sent = <<>>
    /\ clients = NewClients
    /\ now = 0
    /\ ticks = 0
    /\ granted = NoGrants
    /\ last = NoCall
    /\ cell = EmptyStr
    /\ carrier_key = EmptyStr
    /\ prev = [NoPrev EXCEPT !.on = TRUE]

SpecRerun == InitRerun /\ [][Next]_vars

\* the iterations of this run that reconcile a row with a carrier's answer and
\* whose row was reconciled in an earlier run
Reruns == {e \in Iterations : e.called /\ prev.rows[e.row].seen}

\* the earlier reconciliation of the row of iteration e
Earlier(e) == prev.rows[e.row]

\* the same stored status and date, and the same fresh result
SameInputs(e) == Earlier(e).it.before = e.before /\ Earlier(e).it.result = e.result

\* the same decision: the same branch, a write in both or in neither, and the
\* same dict for the report
SameDecision(e) ==
    /\ Earlier(e).it.branch = e.branch
    /\ Earlier(e).it.wrote = e.wrote
    /\ HasEntry(e) /\ Earlier(e).entry = all_results[e.entry]

\* once a write of status S has succeeded, the run that next sees S for the row
\* issues no write
NoSecondWrite(e) ==
    Earlier(e).it.wrote /\ Earlier(e).it.write_ok
        /\ e.result.error = "" /\ e.result.status = Earlier(e).it.result.status
    => ~e.wrote

C24_OneItemAtATime ==
    [][ pc = "rows" /\ pc' # "crashed" =>
          LET item == Head(rows).row_num IN
          /\ rows' = Tail(rows)
          /\ Len(events') = Len(events) + 1
          /\ events'[Len(events')].row = item
          /\ SubSeq(events', 1, Len(events)) = events
          /\ \A e \in Iterations : e.row # item
          /\ \A i \in RowIds \ {item} : sheet'[i] = sheet[i] ]_vars

\* both rows of the tab were tracked and written, one after the other
C24_Witness ==
    /\ pc = "done"
    /\ Len(events) = 2
    /\ events[1].row = 1 /\ events[1].called /\ events[1].wrote /\ events[1].write_ok
    /\ events[2].row = 2 /\ events[2].called /\ events[2].wrote /\ events[2].write_ok

\* C25: a step changes a row of the spreadsheet only as the write of the
\* iteration that reconciles this row, and then only its status cell and its
\* delivery-date cell; every other cell and every other row stay as they are,
\* and the spreadsheet keeps all its rows.
C25_WriteFrame ==
    [][ /\ DOMAIN sheet' = DOMAIN sheet
        /\ \A i \in DOMAIN sheet :
             sheet'[i] # sheet[i] =>
                 /\ pc = "rows"
                 /\ i = Head(rows).row_num
                 /\ events'[Len(events')].wrote
                 /\ DOMAIN sheet'[i] = DOMAIN sheet[i]
                 /\ \A c \in DOMAIN sheet[i] \ {"status", "delivery_date"} :
                      sheet'[i][c] = sheet[i][c] ]_vars

\* a write has changed the status and the date of row 2 and nothing else
C25_Witness ==
    \E e \in Iterations :
        /\ e.row = 2
        /\ e.wrote /\ e.write_ok
        /\ e.before.status = "in transit " /\ e.after.status = "DELIVERED"
        /\ e.before.delivery_date = Date_0220 /\ e.after.delivery_date = Date_0225
        /\ e.after.carrier = e.before.carrier
        /\ sheet[2] = e.after

\* C26: when the write of a changed status is refused, the run does not stop:
\* the row keeps its stored status and date, the iteration adds its dict with
\* the fresh status and date to the results, and the loop goes on with the next
\* row, tab or spreadsheet, or with the summary.
C26_WriteFailureSwallowed ==
    [][ pc = "rows" /\ Len(events') = Len(events) + 1
          /\ events'[Len(events')].wrote /\ ~events'[Len(events')].write_ok
        => LET e == events'[Len(events')] IN
           /\ sheet' = sheet
           /\ e.after = e.before
           /\ Len(all_results') = Len(all_results) + 1
           /\ all_results'[e.entry].new_status = e.result.status
           /\ all_results'[e.entry].delivery_date = e.result.delivery_date
           /\ rows' = Tail(rows)
           /\ pc' = IF rows' # <<>> THEN "rows"
                    ELSE IF Tail(tabs_to_process) # <<>> THEN "tab"
                    ELSE IF Tail(tokens_left) # <<>> THEN "sheet" ELSE "summary" ]_vars

\* the write for row 1 was refused, row 2 was tracked after it, and the report
\* was sent with the fresh status of row 1
C26_Witness ==
    /\ pc = "done"
    /\ Len(events) = 2
    /\ events[1].row = 1 /\ events[1].wrote /\ ~events[1].write_ok
    /\ events[1].result.status = "DELIVERED"
    /\ sheet[1].status = "in transit " /\ sheet[1].delivery_date = Date_0220
    /\ all_results[events[1].entry].new_status = "DELIVERED"
    /\ all_results[events[1].entry].delivery_date = Date_0225
    /\ events[2].row = 2 /\ events[2].called
    /\ Len(sent) = 1

====
